---- MODULE Spec2Model ----
(***************************************************************************)
(* Model of the condor reporting layer of clas12-utilities (disk-osg/lib): *)
(* the Matcher filter object, the record normaliser condor_munge with the  *)
(* running tally condor_tally, and the cluster / site summaries.           *)
(*                                                                         *)
(* Python strings are sequences of one-character strings; None is the      *)
(* one-element sequence None.  A dictionary is a record whose fields are   *)
(* its keys; a key it does not have is no field of the record.             *)
(***************************************************************************)
EXTENDS Integers, Sequences, FiniteSets, TLC

VARIABLES
  m_criteria,     \* the list handed to Matcher.__init__
  m_values,       \* Matcher.values
  m_antivalues,   \* Matcher.antivalues
  m_call,         \* the method last called on the matcher
  m_arg,          \* its argument
  m_ret           \* its return value

matcherVars == <<m_criteria, m_values, m_antivalues, m_call, m_arg, m_ret>>

VARIABLES
  condor_data_tallies,  \* the global dictionary of running totals
  tally_job,            \* the record handed to the last condor_tally call
  tally_err,            \* the exception that ended the last call, "" when none
  ingested              \* how often the i-th record of TallyJobSeq has been ingested

tallyVars == <<condor_data_tallies, tally_job, tally_err, ingested>>

VARIABLES
  condor_data,    \* the record map: its (key, record) items in insertion order
  generators,     \* the module-level cache of get_generator
  script_reads,   \* how many script files get_generator has opened
  args,           \* the parsed command line
  now,            \* the clock, in seconds
  files,          \* the files of the submission directories: path -> content
  munge_calls,    \* how often condor_munge has been called
  munge_err,      \* the exception that ended the last call, "" when none
  munge_at,       \* the place in the map of the record at which it was raised
  munge_first     \* the record map as the first call left it

mungeVars ==
  <<condor_data, generators, script_reads, args, now, files,
    munge_calls, munge_err, munge_at, munge_first>>

VARIABLES
  matchers,       \* the seven module-level matchers of condor_match
  summary_call,   \* the summary last asked for: "cluster", "site", "exit" or "efficiency"
  summary_ret,    \* what it returned: the items [key, v] of its ordered dictionary
  summary_sites,  \* the site groups as they were before sort_dict
  summary_err     \* the exception that ended it, "" when none

summaryVars == <<matchers, summary_call, summary_ret, summary_sites, summary_err>>

VARIABLES
  yield_calls,    \* how often condor_yield(args) has been run through
  yield_ret,      \* the (key, record) items the last run yielded
  yield_err       \* the exception that ended it, "" when none

yieldVars == <<yield_calls, yield_ret, yield_err>>

VARIABLES
  control,        \* the job-control request: [mode, vacate], vacate in hundredths of an hour
  control_at,     \* how many of the yielded jobs the batch loop has been through
  commands,       \* the command lines handed to check_output, in order
  printed,        \* the texts printed, in order
  control_log,    \* one entry for every call of a job-control function
  control_err     \* the exception that left the batch loop, "" when none

controlVars == <<control, control_at, commands, printed, control_log, control_err>>

VARIABLES
  load_calls,     \* how often condor_query or condor_read has been called
  load_kind,      \* the shape of what the last call loaded: "array", "dict" or ""
  load_log,       \* the JSON arrays whose entries were gone through, in order
  load_err,       \* the exception that ended the call, "" when none
  opened          \* the paths handed to open for a snapshot, in order

loadVars == <<load_calls, load_kind, load_log, load_err, opened>>

VARIABLES
  cli_args,       \* condor-probe.py: the parsed command line
  hostname,       \* what socket.gethostname() answers
  username,       \* what getpass.getuser() answers
  pc,             \* the statement of the main program the run is at
  exit_status,    \* the status the run ended with, -1 while it runs
  usage           \* the message of cli.error, "" when it was not called

probeVars == <<cli_args, hostname, username, pc, exit_status, usage>>

vars == <<matcherVars, tallyVars, mungeVars, summaryVars, yieldVars, controlVars, loadVars, probeVars>>

----------------------------------------------------------------------------
(* Bounds of the model *)

MaxStrLen == 2      \* longest word of a criterion or of a matched value
MaxCrit == 2        \* longest criteria list
MaxIngest == 3      \* most condor_tally calls of one run
MaxRecords == 2     \* most records of a record map
MaxMunge == 2       \* most condor_munge calls of one run
MaxSummary == 3     \* most records of a summarised record map
MaxEntries == 2     \* most entries of a JSON array
MaxYield == 2       \* most runs through condor_yield of one process

----------------------------------------------------------------------------
(* Python values and strings *)

None == <<"NONE">>

DigitChars == <<"0", "1", "2", "3", "4", "5", "6", "7", "8", "9">>

\* '%d' % n for n >= 0
RECURSIVE IntToStr(_)
IntToStr(n) ==
  IF n < 10 THEN <<DigitChars[n + 1]>>
  ELSE Append(IntToStr(n \div 10), DigitChars[(n % 10) + 1])

\* str(value): None prints as 'None', a Python int <<"int", n>> in decimal,
\* a string is itself
Str(v) ==
  IF v = None THEN <<"N", "o", "n", "e">>
  ELSE IF Len(v) = 2 /\ v[1] = "int"
  THEN IF v[2] < 0 THEN <<"-">> \o IntToStr(-v[2]) ELSE IntToStr(v[2])
  ELSE v

Letters == {"a", "b"}

RECURSIVE WordsUpTo(_)
WordsUpTo(n) ==
  IF n = 0 THEN {<<>>}
  ELSE LET shorter == WordsUpTo(n - 1)
       IN  shorter \cup {Append(w, c) : w \in shorter, c \in Letters}

Words == WordsUpTo(MaxStrLen)

\* s.startswith(p)
StartsWith(s, p) == Len(s) >= Len(p) /\ SubSeq(s, 1, Len(p)) = p

\* s.find(x): the lowest index (from 0) where x occurs in s, -1 when absent
Find(s, x) ==
  LET hits == {i \in 0..(Len(s) - Len(x)) : SubSeq(s, i + 1, i + Len(x)) = x}
  IN  IF hits = {} THEN -1 ELSE CHOOSE i \in hits : \A j \in hits : i <= j

\* x in alist
InList(x, alist) == \E i \in 1..Len(alist) : alist[i] = x

----------------------------------------------------------------------------
(* Matcher *)

\* Matcher.__init__: the loop that splits the criteria into values and
\* antivalues, a leading dash stripped from the latter
RECURSIVE MatcherInitLoop(_, _, _, _)
MatcherInitLoop(L, i, values, antivalues) ==
  IF i > Len(L) THEN [values |-> values, antivalues |-> antivalues]
  ELSE LET v == Str(L[i])
       IN  IF StartsWith(v, <<"-">>)
           THEN MatcherInitLoop(L, i + 1, values, Append(antivalues, Tail(v)))
           ELSE MatcherInitLoop(L, i + 1, Append(values, v), antivalues)

MatcherNew(L) == MatcherInitLoop(L, 1, <<>>, <<>>)

\* matches with the veto test skipped once a positive criterion matched
matches_ignoring_veto(self, value) ==
  IF Len(self.values) > 0
  THEN InList(Str(value), self.values)
  ELSE ~(Len(self.antivalues) > 0 /\ InList(Str(value), self.antivalues))

\* Matcher.matches
matches(self, value) ==
  IF Len(self.values) > 0 /\ ~InList(Str(value), self.values) THEN FALSE
  ELSE IF Len(self.antivalues) > 0 /\ InList(Str(value), self.antivalues) THEN FALSE
  ELSE TRUE

\* the first loop of Matcher.pattern_matches: TRUE when the loop is left by
\* break or by exhaustion, FALSE when it returns False
RECURSIVE PatternValuesLoop(_, _, _)
PatternValuesLoop(values, i, value) ==
  IF i > Len(values) THEN TRUE
  ELSE LET found == Find(values[i], Str(value)) >= 0
       IN  IF found THEN TRUE
           ELSE IF ~found THEN FALSE
           ELSE PatternValuesLoop(values, i + 1, value)

\* the second loop of Matcher.pattern_matches: FALSE when it returns False
RECURSIVE PatternAntivaluesLoop(_, _, _)
PatternAntivaluesLoop(antivalues, i, value) ==
  IF i > Len(antivalues) THEN TRUE
  ELSE IF Find(antivalues[i], Str(value)) >= 0 THEN FALSE
  ELSE PatternAntivaluesLoop(antivalues, i + 1, value)

\* Matcher.pattern_matches
pattern_matches(self, value) ==
  IF ~PatternValuesLoop(self.values, 1, value) THEN FALSE
  ELSE IF ~PatternAntivaluesLoop(self.antivalues, 1, value) THEN FALSE
  ELSE TRUE

\* criterion strings: a word, or a dash and a word
Criteria == Words \cup {<<"-">> \o w : w \in Words}

RECURSIVE ListsUpTo(_, _)
ListsUpTo(S, n) ==
  IF n = 0 THEN {<<>>}
  ELSE LET shorter == ListsUpTo(S, n - 1)
       IN  shorter \cup {Append(l, x) : l \in shorter, x \in S}

CriteriaLists == ListsUpTo(Criteria, MaxCrit)

MatchValues == Words \cup {None}

Matcher == [values |-> m_values, antivalues |-> m_antivalues]

MatcherSetup ==
  \E L \in CriteriaLists :
    /\ m_criteria = L
    /\ m_values = MatcherNew(L).values
    /\ m_antivalues = MatcherNew(L).antivalues
    /\ m_call = "__init__"
    /\ m_arg = None
    /\ m_ret = None

MatcherMatches ==
  \E v \in MatchValues :
    /\ m_call' = "matches"
    /\ m_arg' = v
    /\ m_ret' = matches(Matcher, v)
    /\ UNCHANGED <<m_criteria, m_values, m_antivalues>>
    /\ UNCHANGED <<tallyVars, mungeVars, summaryVars, yieldVars, controlVars, loadVars, probeVars>>

MatcherPatternMatches ==
  \E v \in MatchValues :
    /\ m_call' = "pattern_matches"
    /\ m_arg' = v
    /\ m_ret' = pattern_matches(Matcher, v)
    /\ UNCHANGED <<m_criteria, m_values, m_antivalues>>
    /\ UNCHANGED <<tallyVars, mungeVars, summaryVars, yieldVars, controlVars, loadVars, probeVars>>

MatcherIdle ==
  /\ m_criteria = <<>>
  /\ m_values = <<>>
  /\ m_antivalues = <<>>
  /\ m_call = "__init__"
  /\ m_arg = None
  /\ m_ret = None

----------------------------------------------------------------------------
(* config.py *)

null_field == <<"-">>

job_states ==
  [s \in 0..6 |-> CASE s = 0 -> "U" [] s = 1 -> "I" [] s = 2 -> "R" [] s = 3 -> "X"
                     [] s = 4 -> "C" [] s = 5 -> "H" [] s = 6 -> "E"]

job_counts == [done |-> 0, run |-> 0, idle |-> 0, held |-> 0, other |-> 0, total |-> 0]

exit_codes ==
  (202 :> "cvmfs") @@ (203 :> "generator") @@ (211 :> "ls") @@ (204 :> "gemc") @@
  (0 :> "success/unknown") @@ (205 :> "evio2hipo") @@ (207 :> "recon-util") @@
  (208 :> "hipo-utils") @@ (212 :> "xrootd")

----------------------------------------------------------------------------
(* Numbers.  A string made by '%.2f' is the pair <<"%.2f", n>> of the format *)
(* and the number of hundredths it shows; the Python int 0 that condor_munge *)
(* stores in ceff is <<"int", 0>>.  Timestamps and cpu times are whole       *)
(* seconds.                                                                  *)

Fmt2(n) == <<"%.2f", n>>
PyInt(n) == <<"int", n>>

\* float(v) in hundredths, for a v that float() accepts
Float100(v) == IF v[1] = "%.2f" THEN v[2] ELSE 100 * v[2]

\* float() raises TypeError on None
Floatable(v) == v # None

(* A Python float (IEEE-754 binary64) whose value is i + d * 2^-47 for      *)
(* integers i and d with |d| < 2^30 is the pair <<i, d>>.  Every float the  *)
(* tally meets has this form: a whole number of seconds, or a '%.2f' hour   *)
(* count times 60*60, and the sums and differences of such.  A Python int   *)
(* n is <<n, 0>>: int and float compare and add by value.                   *)

DInt(n) == <<n, 0>>

DNeg(a) == <<-a[1], -a[2]>>

DIsNeg(a) == a[1] < 0 \/ (a[1] = 0 /\ a[2] < 0)

DLess(a, b) == DIsNeg(<<a[1] - b[1], a[2] - b[2]>>)

RECURSIVE Pow2(_)
Pow2(k) == IF k = 0 THEN 1 ELSE 2 * Pow2(k - 1)

RECURSIVE Log2Floor(_)
Log2Floor(m) == IF m < 2 THEN 0 ELSE 1 + Log2Floor(m \div 2)

\* Round a value >= 0 to 53 significant bits, ties to even.  Below 32 every
\* multiple of 2^-47 is a binary64; from 2^e on (e >= 5) the binary64 numbers
\* are the multiples of q * 2^-47 with q = 2^(e-5).
DRoundMagnitude(a) ==
  LET m == IF a[2] < 0 THEN a[1] - 1 ELSE a[1]
  IN  IF m < 32 THEN a
      ELSE LET q == Pow2(Log2Floor(m) - 5)
               r == a[2] % q
               lo == a[2] - r
           IN  IF 2 * r < q THEN <<a[1], lo>>
               ELSE IF 2 * r > q THEN <<a[1], lo + q>>
               ELSE IF (lo \div q) % 2 = 0 THEN <<a[1], lo>>
               ELSE <<a[1], lo + q>>

DRound(a) == IF DIsNeg(a) THEN DNeg(DRoundMagnitude(DNeg(a))) ELSE DRoundMagnitude(a)

\* a + b and a - b of Python floats
DAdd(a, b) == DRound(<<a[1] + b[1], a[2] + b[2]>>)
DSub(a, b) == DRound(<<a[1] - b[1], a[2] - b[2]>>)

\* float('%.2f' % h)*60*60 is 36 n seconds for n hundredths of an hour, off by
\* WallDev[n] * 2^-47 where the two multiplications round (n from 1 to 300,
\* ten to a row)
WallDev ==
  <<
  0, 0, -2, 0, 0, -4, 0, 0, -8, 0,
  0, -8, 8, 0, 0, 0, 16, -16, 0, 0,
  0, 0, 0, -16, 0, 16, 32, 0, 0, 0,
  0, 0, 0, 32, 0, -32, 0, 0, 32, 0,
  -32, 0, 0, 0, 0, 0, 0, -32, 0, 0,
  0, 32, 0, 64, 0, 0, -64, 0, 0, 0,
  0, 0, 0, 0, 0, 0, 0, 64, 0, 0,
  -64, -64, 0, 0, 0, 0, 0, 64, 64, 0,
  0, -64, 0, 0, 0, 0, 0, 0, 0, 0,
  0, 0, 64, 0, 0, -64, -64, 0, 0, 0,
  0, 0, 64, 64, 0, 0, 0, 128, 64, 0,
  64, 0, 0, -128, 0, 0, -128, 0, -128, 0,
  0, 0, 0, 0, 0, 0, 0, 0, 0, 0,
  128, 0, 128, 0, 0, 128, 0, 0, -128, 0,
  0, -128, 0, -128, 0, 0, 0, 0, 0, 0,
  0, 0, 0, 0, 0, 128, 0, 128, 0, 0,
  128, 0, 0, -128, 0, 0, -128, 0, -128, 0,
  0, 0, 0, 0, 0, 0, 0, 0, 0, 0,
  128, 0, 128, 0, 0, 128, 0, 0, -128, 0,
  0, -128, 0, -128, 0, 0, 0, 0, 0, 0,
  0, 0, -128, 0, -128, 128, -128, 128, -128, 0,
  0, 0, 0, 0, 0, 256, -128, 128, 0, 0,
  0, 128, 128, 0, 0, 0, -128, -256, 0, 0,
  0, 0, 0, -256, 0, 0, 256, -256, 0, 0,
  256, 0, 0, 0, 0, 0, 256, 0, 0, 0,
  0, 0, -256, 0, 0, 0, 0, 0, -256, 0,
  0, 256, -256, 0, 0, 256, 0, 0, 0, 0,
  0, 256, 0, 0, 0, 0, 0, -256, 0, 0,
  0, 0, 0, -256, 0, 0, 256, -256, 0, 0,
  256, 0, 0, 0, 0, 0, 256, 0, 0, 0
  >>

\* float(wallhr)*60*60
WallSeconds(wallhr) ==
  LET n == Float100(wallhr)
  IN  CASE n = 0 -> <<0, 0>>
        [] n \in 1..300 -> <<36 * n, WallDev[n]>>

\* job.get(key)
Get(job, key) == IF key \in DOMAIN job THEN job[key] ELSE None

Has(job, key) == key \in DOMAIN job

----------------------------------------------------------------------------
(* Strings *)

Digits == {"0", "1", "2", "3", "4", "5", "6", "7", "8", "9"}

LowerLetters ==
  <<"a", "b", "c", "d", "e", "f", "g", "h", "i", "j", "k", "l", "m",
    "n", "o", "p", "q", "r", "s", "t", "u", "v", "w", "x", "y", "z">>

UpperLetters ==
  <<"A", "B", "C", "D", "E", "F", "G", "H", "I", "J", "K", "L", "M",
    "N", "O", "P", "Q", "R", "S", "T", "U", "V", "W", "X", "Y", "Z">>

LowerSet == {LowerLetters[i] : i \in DOMAIN LowerLetters}

Whitespace == {" ", "\t", "\n", "\r"}

\* '%d.%d' % (a, b)
DotPair(a, b) == IntToStr(a) \o <<".">> \o IntToStr(b)

\* the literal lit stands in s at index i (from 1)
LitAt(s, i, lit) ==
  i >= 1 /\ i + Len(lit) - 1 <= Len(s) /\ SubSeq(s, i, i + Len(lit) - 1) = lit

\* the last index of the longest run of characters of class C that starts at
\* index i of s; i - 1 when there is none
RECURSIVE RunEnd(_, _, _)
RunEnd(s, i, C) == IF i <= Len(s) /\ s[i] \in C THEN RunEnd(s, i + 1, C) ELSE i - 1

\* the highest and the lowest index at which the literal stands in s, 0 when
\* it does not
LastIndexOf(s, lit) ==
  LET hits == {i \in 1..Len(s) : LitAt(s, i, lit)}
  IN  IF hits = {} THEN 0 ELSE CHOOSE i \in hits : \A j \in hits : j <= i

FirstIndexOf(s, lit) ==
  LET hits == {i \in 1..Len(s) : LitAt(s, i, lit)}
  IN  IF hits = {} THEN 0 ELSE CHOOSE i \in hits : \A j \in hits : i <= j

\* s.split(sep).pop(): what follows the last sep
AfterLast(s, sep) == SubSeq(s, LastIndexOf(s, sep) + 1, Len(s))

\* s.split(sep).pop(0): what precedes the first sep
BeforeFirst(s, sep) ==
  IF FirstIndexOf(s, sep) = 0 THEN s ELSE SubSeq(s, 1, FirstIndexOf(s, sep) - 1)

\* s.strip()
RECURSIVE LStrip(_)
LStrip(s) == IF s # <<>> /\ s[1] \in Whitespace THEN LStrip(Tail(s)) ELSE s

RECURSIVE RStrip(_)
RStrip(s) ==
  IF s # <<>> /\ s[Len(s)] \in Whitespace THEN RStrip(SubSeq(s, 1, Len(s) - 1)) ELSE s

Strip(s) == RStrip(LStrip(s))

\* s.split(): the runs of non-blank characters
RECURSIVE SplitBlank(_)
SplitBlank(s) ==
  LET t == LStrip(s)
      e == RunEnd(t, 1, {t[i] : i \in DOMAIN t} \ Whitespace)
  IN  IF t = <<>> THEN <<>>
      ELSE <<SubSeq(t, 1, e)>> \o SplitBlank(SubSeq(t, e + 1, Len(t)))

\* sep.join(alist)
RECURSIVE Join(_, _)
Join(sep, alist) ==
  IF alist = <<>> THEN <<>>
  ELSE IF Len(alist) = 1 THEN alist[1]
  ELSE alist[1] \o sep \o Join(sep, Tail(alist))

\* s.lower()
LowerChar(c) ==
  IF \E i \in DOMAIN UpperLetters : UpperLetters[i] = c
  THEN LowerLetters[CHOOSE i \in DOMAIN UpperLetters : UpperLetters[i] = c]
  ELSE c

Lower(s) == [i \in DOMAIN s |-> LowerChar(s[i])]

\* os.path.dirname(p): the part up to the last slash, without its trailing
\* slashes unless it consists of slashes only
RECURSIVE RStripSlash(_)
RStripSlash(s) ==
  IF s # <<>> /\ s[Len(s)] = "/" THEN RStripSlash(SubSeq(s, 1, Len(s) - 1)) ELSE s

Dirname(p) ==
  LET head == SubSeq(p, 1, LastIndexOf(p, <<"/">>))
  IN  IF RStripSlash(head) = <<>> THEN head ELSE RStripSlash(head)

\* s[0:-4]
DropLast4(s) == IF Len(s) <= 4 THEN <<>> ELSE SubSeq(s, 1, Len(s) - 4)

\* int(s) for a run of decimal digits
RECURSIVE DigitsToInt(_)
DigitsToInt(s) ==
  IF s = <<>> THEN 0
  ELSE 10 * DigitsToInt(SubSeq(s, 1, Len(s) - 1)) +
       (CHOOSE d \in 0..9 : DigitChars[d + 1] = s[Len(s)])

----------------------------------------------------------------------------
(* config.log_regex = '/([a-z]+)/job_([0-9]+)/log/job\.([0-9]+)\.([0-9]+)\.' *)

\* The match of log_regex that starts at index i of s, or None. Every
\* quantified class is followed by a literal outside the class, so only the
\* longest run can be continued to a match.
LogMatchAt(s, i) ==
  LET u1 == i + 1
      u2 == RunEnd(s, u1, LowerSet)
      g1 == u2 + 6
      g2 == RunEnd(s, g1, Digits)
      c1 == g2 + 10
      c2 == RunEnd(s, c1, Digits)
      p1 == c2 + 2
      p2 == RunEnd(s, p1, Digits)
  IN  IF /\ LitAt(s, i, <<"/">>)
         /\ u2 >= u1
         /\ LitAt(s, u2 + 1, <<"/", "j", "o", "b", "_">>)
         /\ g2 >= g1
         /\ LitAt(s, g2 + 1, <<"/", "l", "o", "g", "/", "j", "o", "b", ".">>)
         /\ c2 >= c1
         /\ LitAt(s, c2 + 1, <<".">>)
         /\ p2 >= p1
         /\ LitAt(s, p2 + 1, <<".">>)
      THEN <<SubSeq(s, u1, u2), SubSeq(s, g1, g2), SubSeq(s, c1, c2), SubSeq(s, p1, p2)>>
      ELSE None

\* re.search(config.log_regex, s): the leftmost match, or None
LogSearch(s) ==
  LET starts == {i \in 1..Len(s) : LogMatchAt(s, i) # None}
  IN  IF starts = {} THEN None
      ELSE LogMatchAt(s, CHOOSE i \in starts : \A j \in starts : i <= j)

----------------------------------------------------------------------------
(* condor_tally *)

\* the module-level initial value of condor_data_tallies
TalliesInit ==
  [goodwall |-> DInt(0), badwall |-> DInt(0), goodcpu |-> 0, badcpu |-> 0,
   goodattempts |-> 0, badattempts |-> 0, attempts |-> <<>>]

\* One statement of a function body on the running state s = [x, err]: it is
\* skipped once an exception is pending, raises exc when its operands cannot
\* be evaluated, and otherwise leaves x as newx.
Stmt(s, defined, exc, newx) ==
  IF s.err # "" THEN s
  ELSE IF ~defined THEN [s EXCEPT !.err = exc]
  ELSE [s EXCEPT !.x = newx]

\* x[key] = value, the key created when it is not there yet
SetItem(x, key, value) ==
  [k \in DOMAIN x \cup {key} |-> IF k = key THEN value ELSE x[k]]

\* x['attempts'].append(job['NumJobStarts']) when the job has started
TallyAttempts(s, job) ==
  Stmt(s, Has(job, "NumJobStarts"), "KeyError",
       IF job.NumJobStarts > 0
       THEN [s.x EXCEPT !.attempts = Append(@, job.NumJobStarts)]
       ELSE s.x)

TallyGoodAttempts(s, job) ==
  Stmt(s, TRUE, "", [s.x EXCEPT !.goodattempts = @ + 1])

TallyGoodWall(s, job) ==
  Stmt(s, Floatable(job.wallhr), "TypeError",
       [s.x EXCEPT !.goodwall = DAdd(@, WallSeconds(job.wallhr))])

TallyGoodCpu(s, job) ==
  Stmt(s, Has(job, "RemoteUserCpu"), "KeyError",
       [s.x EXCEPT !.goodcpu = @ + job.RemoteUserCpu])

\* the three statements for a Completed job
TallyGood(s, job) ==
  IF job_states[job.JobStatus] = "C"
  THEN TallyGoodCpu(TallyGoodWall(TallyGoodAttempts(s, job), job), job)
  ELSE s

TallyExcessAttempts(s, job) ==
  Stmt(s, TRUE, "", [s.x EXCEPT !.badattempts = @ + job.NumJobStarts - 1])

\* job['CumulativeSlotTime'] is read before float(job['wallhr'])
TallyExcessWall(s, job) ==
  Stmt(s, Has(job, "CumulativeSlotTime"), "KeyError",
       IF Floatable(job.wallhr)
       THEN [s.x EXCEPT !.badwall =
               DAdd(@, DSub(DInt(job.CumulativeSlotTime), WallSeconds(job.wallhr)))]
       ELSE s.x)

TallyExcessWallType(s, job) ==
  Stmt(s, Floatable(job.wallhr), "TypeError", s.x)

TallyExcessCpu(s, job) ==
  Stmt(s, Has(job, "CumulativeRemoteUserCpu") /\ Has(job, "RemoteUserCpu"), "KeyError",
       [s.x EXCEPT !.badcpu = @ + job.CumulativeRemoteUserCpu - job.RemoteUserCpu])

\* the three statements for a job that started more than once
TallyExcess(s, job) ==
  IF s.err = "" /\ job.NumJobStarts > 1
  THEN TallyExcessCpu(
         TallyExcessWallType(TallyExcessWall(TallyExcessAttempts(s, job), job), job), job)
  ELSE s

\* the branch of condor_tally for a Completed or Running job
TallyCompletedOrRunning(s, job) ==
  TallyExcess(TallyGood(TallyAttempts(s, job), job), job)

TallyBadAttempts(s, job) ==
  Stmt(s, TRUE, "", [s.x EXCEPT !.badattempts = @ + job.NumJobStarts])

TallyBadWall(s, job) ==
  Stmt(s, Has(job, "CumulativeSlotTime"), "KeyError",
       [s.x EXCEPT !.badwall = DAdd(@, DInt(job.CumulativeSlotTime))])

TallyBadCpu(s, job) ==
  Stmt(s, Has(job, "CumulativeRemoteUserCpu"), "KeyError",
       [s.x EXCEPT !.badcpu = @ + job.CumulativeRemoteUserCpu])

\* job['NumJobStarts'] of the elif test
TallyOtherStarts(s, job) == Stmt(s, Has(job, "NumJobStarts"), "KeyError", s.x)

\* TallyOtherBody without the test for the Removed state
TallyOtherBody_CountsRemoved(s, job) ==
  IF s.err = "" /\ job.NumJobStarts > 0
  THEN TallyBadCpu(TallyBadWall(TallyBadAttempts(s, job), job), job)
  ELSE s

\* the body of the elif branch, under its test
TallyOtherBody(s, job) ==
  IF s.err = "" /\ job.NumJobStarts > 0 /\ job_states[job.JobStatus] # "X"
  THEN TallyBadCpu(TallyBadWall(TallyBadAttempts(s, job), job), job)
  ELSE s

\* the elif branch of condor_tally: every other job
TallyOther(s, job) == TallyOtherBody(TallyOtherStarts(s, job), job)

\* TallyTotalWall with the total taken from the good jobs alone
TallyTotalWall_GoodOnly(s) ==
  Stmt(s, TRUE, "", SetItem(s.x, "totalwall", s.x.goodwall))

TallyTotalWall(s) ==
  Stmt(s, TRUE, "", SetItem(s.x, "totalwall", DAdd(s.x.badwall, s.x.goodwall)))

TallyTotalCpu(s) ==
  Stmt(s, TRUE, "", SetItem(s.x, "totalcpu", s.x.badcpu + s.x.goodcpu))

\* the two closing assignments of condor_tally
TallyTotals(s) == TallyTotalCpu(TallyTotalWall(s))

\* the if / elif of condor_tally
TallyBranch(s, job) ==
  IF job_states[job.JobStatus] \in {"C", "R"}
  THEN TallyCompletedOrRunning(s, job)
  ELSE TallyOther(s, job)

\* condor_tally(job) on the tallies x: the tallies it leaves and the
\* exception it raises ("" when it returns)
condor_tally(x, job) == TallyTotals(TallyBranch([x |-> x, err |-> ""], job))

----------------------------------------------------------------------------
(* The records condor_tally is fed: the fields it reads of normalised jobs. *)
(* wallhr is a '%.2f' string for a Completed job, that or None for a        *)
(* Running one and None for every other state, as condor_calc_wallhr        *)
(* leaves it.                                                                *)

TallyJob(status, starts, wallhr) ==
  [JobStatus |-> status, NumJobStarts |-> starts, wallhr |-> wallhr,
   RemoteUserCpu |-> 1800, CumulativeSlotTime |-> 7200,
   CumulativeRemoteUserCpu |-> 3600]

TallyJobSeq ==
  <<
     TallyJob(4, 1, Fmt2(1)), TallyJob(4, 1, Fmt2(3)),
     TallyJob(4, 1, Fmt2(6)), TallyJob(4, 1, Fmt2(100)),
     TallyJob(4, 1, Fmt2(300)), TallyJob(4, 2, Fmt2(1)),
     TallyJob(4, 2, Fmt2(3)), TallyJob(4, 2, Fmt2(6)),
     TallyJob(4, 2, Fmt2(100)), TallyJob(4, 2, Fmt2(300)),
     TallyJob(2, 1, None), TallyJob(2, 1, Fmt2(100)),
     TallyJob(2, 2, None), TallyJob(2, 2, Fmt2(100)),
     TallyJob(0, 0, None), TallyJob(0, 2, None),
     TallyJob(1, 0, None), TallyJob(1, 2, None),
     TallyJob(3, 0, None), TallyJob(3, 2, None),
     TallyJob(5, 0, None), TallyJob(5, 2, None),
     TallyJob(6, 0, None), TallyJob(6, 2, None)
  >>

TallyJobs == {TallyJobSeq[i] : i \in DOMAIN TallyJobSeq}

\* the value of tally_job before the first call
NoJob == [nojob |-> TRUE]

TallyIdle ==
  /\ condor_data_tallies = TalliesInit
  /\ tally_job = NoJob
  /\ tally_err = ""
  /\ ingested = [i \in DOMAIN TallyJobSeq |-> 0]

\* f[1] + ... + f[n]
RECURSIVE SumTo(_, _)
SumTo(f, n) == IF n = 0 THEN 0 ELSE f[n] + SumTo(f, n - 1)

\* the number of condor_tally calls so far
TallyCalls == SumTo(ingested, Len(ingested))

\* one call condor_tally(job); an exception ends the run
CondorTally ==
  \E i \in DOMAIN TallyJobSeq :
    /\ tally_err = ""
    /\ TallyCalls < MaxIngest
    /\ LET r == condor_tally(condor_data_tallies, TallyJobSeq[i])
       IN  /\ condor_data_tallies' = r.x
           /\ tally_err' = r.err
    /\ tally_job' = TallyJobSeq[i]
    /\ ingested' = [ingested EXCEPT ![i] = @ + 1]
    /\ UNCHANGED <<matcherVars, mungeVars, summaryVars, yieldVars, controlVars, loadVars, probeVars>>

----------------------------------------------------------------------------
(* tools.py: reading files.  files maps the path of every regular file to   *)
(* its content.                                                              *)

isfile(filename) == filename \in DOMAIN files

\* the lines of a text as f.readlines() cuts it, without their newline
RECURSIVE SplitLines(_)
SplitLines(content) ==
  IF content = <<>> THEN <<>>
  ELSE IF FirstIndexOf(content, <<"\n">>) = 0 THEN <<content>>
  ELSE <<SubSeq(content, 1, FirstIndexOf(content, <<"\n">>) - 1)>> \o
       SplitLines(SubSeq(content, FirstIndexOf(content, <<"\n">>) + 1, Len(content)))

StripAll(lines) == [i \in DOMAIN lines |-> Strip(lines[i])]

\* list(tools.readlines(filename))
readlines(filename) ==
  IF filename # None /\ isfile(filename) THEN StripAll(SplitLines(files[filename]))
  ELSE <<>>

\* The loop of readlines_reverse from the given position on, with n_lines
\* newlines met and line the text read since the last one (kept in reading
\* order, where the code collects it backwards and yields line[::-1]): the
\* list of the lines it yields.  Reading at the end of the file gives ''.
RECURSIVE ReverseScan(_, _, _, _, _)
ReverseScan(content, max_lines, position, n_lines, line) ==
  IF position < 0 \/ (n_lines > max_lines /\ max_lines > 0) THEN <<line>>
  ELSE IF position < Len(content) /\ content[position + 1] = "\n"
  THEN <<line>> \o ReverseScan(content, max_lines, position - 1, n_lines + 1, <<>>)
  ELSE ReverseScan(content, max_lines, position - 1, n_lines,
                   (IF position < Len(content) THEN <<content[position + 1]>> ELSE <<>>) \o line)

\* list(tools.readlines_reverse(filename, max_lines))
readlines_reverse(filename, max_lines) ==
  IF filename # None /\ isfile(filename)
  THEN ReverseScan(files[filename], max_lines, Len(files[filename]), 0, <<>>)
  ELSE <<>>

\* int(s) succeeds: an optional sign and decimal digits
IntBody(s) == IF s # <<>> /\ s[1] \in {"+", "-"} THEN Tail(s) ELSE s

IsIntLiteral(s) == IntBody(s) # <<>> /\ \A i \in DOMAIN IntBody(s) : IntBody(s)[i] \in Digits

IntOf(s) == IF s[1] = "-" THEN -DigitsToInt(IntBody(s)) ELSE DigitsToInt(IntBody(s))

\* the loop of get_exit_code over the lines it is given
RECURSIVE ExitCodeOfLines(_)
ExitCodeOfLines(lines) ==
  IF lines = <<>> THEN None
  ELSE IF /\ Len(SplitBlank(Strip(lines[1]))) = 2
          /\ SplitBlank(Strip(lines[1]))[1] = <<"e", "x", "i", "t">>
          /\ IsIntLiteral(SplitBlank(Strip(lines[1]))[2])
  THEN PyInt(IntOf(SplitBlank(Strip(lines[1]))[2]))
  ELSE ExitCodeOfLines(Tail(lines))

get_exit_code(job) == ExitCodeOfLines(readlines_reverse(Get(job, "stderr"), 3))

----------------------------------------------------------------------------
(* get_generator *)

GeneratorPrefix == <<"e", "v", "e", "n", "t", "s", " ", "w", "i", "t", "h", " ", "g", "e", "n", "e", "r", "a", "t", "o", "r", " ", ">">>

GeneratorSuffix == <<"<", " ", "w", "i", "t", "h", " ", "o", "p", "t", "i", "o", "n", "s">>

\* where 'events with generator >(.*)< with options' can start in line
GeneratorStarts(line) ==
  {i \in 1..Len(line) :
     /\ LitAt(line, i, GeneratorPrefix)
     /\ \E j \in (i + Len(GeneratorPrefix))..Len(line) : LitAt(line, j, GeneratorSuffix)}

\* the group of the leftmost match, its .* taking as much as it can
GeneratorGroup(line, i) ==
  SubSeq(line, i + Len(GeneratorPrefix),
         (CHOOSE j \in (i + Len(GeneratorPrefix))..Len(line) :
            /\ LitAt(line, j, GeneratorSuffix)
            /\ \A k \in (j + 1)..Len(line) : ~LitAt(line, k, GeneratorSuffix)) - 1)

\* re.search(...).group(1), or None
GeneratorSearch(line) ==
  IF GeneratorStarts(line) = {} THEN None
  ELSE GeneratorGroup(line, CHOOSE i \in GeneratorStarts(line) :
                              \A j \in GeneratorStarts(line) : i <= j)

\* the name a line of the script gives, after line = line.lower(); None when
\* the loop goes on to the next line
GeneratorOfLowered(line) ==
  IF GeneratorSearch(line) # None
  THEN IF StartsWith(GeneratorSearch(line), <<"c", "l", "a", "s", "1", "2", "-">>)
       THEN SubSeq(GeneratorSearch(line), 8, Len(GeneratorSearch(line)))
       ELSE GeneratorSearch(line)
  ELSE IF LitAt(line, 1, <<"e", "c", "h", "o", " ", "L", "U", "N", "D", " ", "E", "v", "e", "n", "t", " ", "F", "i", "l", "e", ":">>)
  THEN <<"l", "u", "n", "d">>
  ELSE IF LitAt(line, 1, <<"g", "e", "m", "c">>) /\ FirstIndexOf(line, <<"I", "N", "P", "U", "T">>) = 0
  THEN <<"g", "e", "m", "c">>
  ELSE None

\* the for loop of get_generator: the name left in the cache
RECURSIVE GeneratorOfLines(_)
GeneratorOfLines(lines) ==
  IF lines = <<>> THEN null_field
  ELSE IF GeneratorOfLowered(Lower(lines[1])) # None THEN GeneratorOfLowered(Lower(lines[1]))
  ELSE GeneratorOfLines(Tail(lines))

\* job.get('ClusterId'), a Python int or None
GeneratorKey(job) == IF Has(job, "ClusterId") THEN PyInt(job.ClusterId) ELSE None

\* key in generators, for a dictionary whose keys are strings: an int or None
\* equals none of them
InGenerators(gens, key) == key # None /\ key[1] = "str" /\ key[2] \in DOMAIN gens

job_script(job) == Dirname(Dirname(job.UserLog)) \o <<"/", "n", "o", "d", "e", "S", "c", "r", "i", "p", "t", ".", "s", "h">>

\* the script of the job is looked for
GeneratorScanned(gens, job) ==
  ~InGenerators(gens, GeneratorKey(job)) /\ Get(job, "UserLog") # None

\* generators after get_generator(job): on a miss the literal key 'ClusterId'
\* is (re)written
GeneratorsAfter(gens, job) ==
  IF InGenerators(gens, GeneratorKey(job)) THEN gens
  ELSE SetItem(gens, "ClusterId",
               IF GeneratorScanned(gens, job)
               THEN GeneratorOfLines(readlines(job_script(job)))
               ELSE null_field)

\* get_generator(job): what it returns, the cache it leaves and the number of
\* script files it has opened
get_generator(gens, job) ==
  [ret |-> Get(GeneratorsAfter(gens, job), "ClusterId"),
   generators |-> GeneratorsAfter(gens, job),
   reads |-> IF GeneratorScanned(gens, job) /\ isfile(job_script(job)) THEN 1 ELSE 0]

----------------------------------------------------------------------------
(* condor_munge.  Scheduler-supplied numbers are ints that are present or   *)
(* absent; the record map is the list of its (key, record) items in         *)
(* insertion order.                                                          *)

\* num / den to the nearest whole number, an exact tie to the even one
Round2(num, den) ==
  IF (2 * num + den) % (2 * den) = 0 /\ ((2 * num + den) \div (2 * den)) % 2 = 1
  THEN ((2 * num + den) \div (2 * den)) - 1
  ELSE (2 * num + den) \div (2 * den)

\* job.update(upd)
SetItems(job, upd) ==
  [k \in DOMAIN job \cup DOMAIN upd |-> IF k \in DOMAIN upd THEN upd[k] ELSE job[k]]

\* a Python int
IsPyInt(v) == Len(v) = 2 /\ v[1] = "int"

\* WallEnd taking the clock for every job
WallEnd_AlwaysNow(job) == now

\* the end of the final instance: CompletionDate, else datetime.now(), for a
\* CompletionDate that is an int, null or absent
WallEnd(job) ==
  IF IsPyInt(Get(job, "CompletionDate")) /\ Get(job, "CompletionDate")[2] > 0
  THEN Get(job, "CompletionDate")[2]
  ELSE now

\* "end > 0" is evaluated, on an end that is neither null nor a number
WallEndRaises(job) ==
  /\ job_states[job.JobStatus] \in {"C", "R"}
  /\ Has(job, "JobCurrentStartDate")
  /\ job.JobCurrentStartDate > 0
  /\ Get(job, "CompletionDate") # None
  /\ ~IsPyInt(Get(job, "CompletionDate"))

\* condor_calc_wallhr(job), for a job with a JobStatus
condor_calc_wallhr(job) ==
  IF /\ job_states[job.JobStatus] \in {"C", "R"}
     /\ Has(job, "JobCurrentStartDate")
     /\ job.JobCurrentStartDate > 0
  THEN Fmt2(Round2(100 * (WallEnd(job) - job.JobCurrentStartDate), 60 * 60))
  ELSE None

\* One statement of the loop body on the running state
\* s = [job, generators, reads, tallies, err], as Stmt.
MungeStmt(s, defined, exc, newjob) ==
  IF s.err # "" THEN s
  ELSE IF ~defined THEN [s EXCEPT !.err = exc]
  ELSE [s EXCEPT !.job = newjob]

MungeReset(s) ==
  MungeStmt(s, TRUE, "",
            SetItems(s.job, [user |-> None, gemc |-> None, host |-> None, condor |-> None,
                             stderr |-> None, stdout |-> None, eff |-> None, ceff |-> None]))

MungeSetGenerator(s, r) ==
  [s EXCEPT !.job = SetItem(@, "generator", r.ret),
            !.generators = r.generators,
            !.reads = @ + r.reads]

MungeGenerator(s) ==
  IF s.err # "" THEN s ELSE MungeSetGenerator(s, get_generator(s.generators, s.job))

MungeWallhrBody(s) ==
  MungeStmt(s, ~WallEndRaises(s.job), "TypeError",
            SetItem(s.job, "wallhr", condor_calc_wallhr(s.job)))

MungeWallhr(s) ==
  MungeWallhrBody(MungeStmt(s, Has(s.job, "JobStatus") /\ s.job.JobStatus \in DOMAIN job_states,
                            "KeyError", s.job))

MungeCondorid(s) ==
  MungeStmt(s, Has(s.job, "ClusterId") /\ Has(s.job, "ProcId"), "KeyError",
            SetItem(s.job, "condorid", DotPair(s.job.ClusterId, s.job.ProcId)))

\* alist[0:2]
FirstTwo(alist) == SubSeq(alist, 1, IF Len(alist) < 2 THEN Len(alist) ELSE 2)

MungeGemcjob(s) ==
  MungeStmt(s, Has(s.job, "Args"), "AttributeError",
            SetItem(s.job, "gemcjob", Join(<<".">>, FirstTwo(SplitBlank(s.job.Args)))))

\* the five fields read off a log path that matches, m its groups
MungeLogFields(s, m) ==
  MungeStmt(s, TRUE, "",
            SetItems(s.job, [user |-> m[1], gemc |-> m[2],
                             condor |-> m[3] \o <<".">> \o m[4],
                             stderr |-> DropLast4(s.job.UserLog) \o <<".", "e", "r", "r">>,
                             stdout |-> DropLast4(s.job.UserLog) \o <<".", "o", "u", "t">>]))

\* if condor_id != job['condor']: raise ValueError
MungeIdCheck(s, condor_id) == MungeStmt(s, condor_id = s.job.condor, "ValueError", s.job)

MungeLogMatch(s, condor_id, m) ==
  IF m = None THEN s ELSE MungeIdCheck(MungeLogFields(s, m), condor_id)

\* the block under "if 'UserLog' in job"
MungeUserLog(s, condor_id) ==
  IF s.err # "" \/ ~Has(s.job, "UserLog") THEN s
  ELSE IF s.job.UserLog = None THEN [s EXCEPT !.err = "TypeError"]
  ELSE MungeLogMatch(s, condor_id, LogSearch(s.job.UserLog))

MungeHost(s) ==
  MungeStmt(s, TRUE, "",
            IF Get(s.job, "RemoteHost") # None
            THEN SetItem(s.job, "host", AfterLast(s.job.RemoteHost, <<"@">>))
            ELSE s.job)

\* what follows the first sep, all of s when there is none
AfterFirst(s, sep) ==
  IF FirstIndexOf(s, sep) = 0 THEN s ELSE SubSeq(s, FirstIndexOf(s, sep) + 1, Len(s))

\* MungeLastRemoteHost dropping the leading label instead of keeping it
MungeLastRemoteHost_DropLabel(s) ==
  MungeStmt(s, TRUE, "",
            IF Get(s.job, "LastRemoteHost") # None
            THEN SetItem(s.job, "LastRemoteHost",
                         AfterFirst(AfterLast(s.job.LastRemoteHost, <<"@">>), <<".">>))
            ELSE s.job)

\* LastRemoteHost is replaced in place by its leading label
MungeLastRemoteHost(s) ==
  MungeStmt(s, TRUE, "",
            IF Get(s.job, "LastRemoteHost") # None
            THEN SetItem(s.job, "LastRemoteHost",
                         BeforeFirst(AfterLast(s.job.LastRemoteHost, <<"@">>), <<".">>))
            ELSE s.job)

\* '%.2f' % (float(RemoteUserCpu) / float(wallhr) / 60 / 60)
EffOf(job) == Fmt2(Round2(100 * 100 * job.RemoteUserCpu, Float100(job.wallhr) * 60 * 60))

\* float(job.get('wallhr')) raises on None; float(job.get('RemoteUserCpu'))
\* is evaluated only under the test
MungeEffBody(s) ==
  MungeStmt(s, /\ Floatable(s.job.wallhr)
               /\ (Float100(s.job.wallhr) > 0 => Has(s.job, "RemoteUserCpu")),
            "TypeError",
            IF Float100(s.job.wallhr) > 0 THEN SetItem(s.job, "eff", EffOf(s.job)) ELSE s.job)

\* MungeEff computing eff for Running jobs as well
MungeEff_Running(s) ==
  IF s.err # "" \/ job_states[s.job.JobStatus] \notin {"C", "R"} THEN s ELSE MungeEffBody(s)

MungeEff(s) ==
  IF s.err # "" \/ job_states[s.job.JobStatus] # "C" THEN s ELSE MungeEffBody(s)

\* '%.2f' % (float(RemoteUserCpu) / CumulativeSlotTime)
CeffOf(job) == Fmt2(Round2(100 * job.RemoteUserCpu, job.CumulativeSlotTime))

\* job.get('CumulativeSlotTime') > 0 raises on None
MungeCeff(s) ==
  MungeStmt(s, /\ Has(s.job, "CumulativeSlotTime")
               /\ (s.job.CumulativeSlotTime > 0 /\ job_states[s.job.JobStatus] \in {"C", "R"}
                     => Has(s.job, "RemoteUserCpu")),
            "TypeError",
            IF s.job.CumulativeSlotTime > 0
            THEN IF job_states[s.job.JobStatus] \in {"C", "R"}
                 THEN SetItem(s.job, "ceff", CeffOf(s.job))
                 ELSE SetItem(s.job, "ceff", PyInt(0))
            ELSE s.job)

MungeExitCode(s) ==
  MungeStmt(s, TRUE, "",
            IF args.parseexit /\ job_states[s.job.JobStatus] = "H"
            THEN SetItem(s.job, "ExitCode", get_exit_code(s.job))
            ELSE s.job)

MungeSetTally(s, r) == [s EXCEPT !.tallies = r.x, !.err = r.err]

MungeTally(s) ==
  IF s.err # "" THEN s ELSE MungeSetTally(s, condor_tally(s.tallies, s.job))

\* the statements up to the log path, and those after it
MungeHead(s) == MungeGemcjob(MungeCondorid(MungeWallhr(MungeGenerator(MungeReset(s)))))

MungeTail(s) ==
  MungeTally(MungeExitCode(MungeCeff(MungeEff(MungeLastRemoteHost(MungeHost(s))))))

\* one pass of the loop body, for the item (condor_id, job)
MungeRecord(s, condor_id) == MungeTail(MungeUserLog(MungeHead(s), condor_id))

\* the running state at the top of the loop body for item i of the map
MungeEnter(m, i) ==
  [job |-> m.data[i].job, generators |-> m.generators, reads |-> m.reads,
   tallies |-> m.tallies, err |-> ""]

\* the program state m = [data, generators, reads, tallies, err, at] once the
\* body has run on item i and left s; the record was changed in place
MungeLeave(m, i, s) ==
  [data |-> [m.data EXCEPT ![i].job = s.job],
   generators |-> s.generators, reads |-> s.reads, tallies |-> s.tallies,
   err |-> s.err, at |-> IF s.err # "" THEN i ELSE m.at]

\* the for loop of condor_munge from item i on; an exception leaves it
RECURSIVE MungeLoop(_, _)
MungeLoop(m, i) ==
  IF i > Len(m.data) \/ m.err # "" THEN m
  ELSE MungeLoop(MungeLeave(m, i, MungeRecord(MungeEnter(m, i), m.data[i].id)), i + 1)

\* condor_munge(args) on the record map data
condor_munge(data, gens, reads, tallies) ==
  MungeLoop([data |-> data, generators |-> gens, reads |-> reads, tallies |-> tallies,
             err |-> "", at |-> 0], 1)

----------------------------------------------------------------------------
(* The record maps condor_munge is run on, as condor_q and condor_history   *)
(* deliver them: the k-th record of a map has its own cluster and process   *)
(* number and is stored under '<ClusterId>.<ProcId>'.                        *)

ClusterAt(k) == 7 + ((k - 1) \div 2)
ProcAt(k) == 1 + ((k - 1) % 2)

\* the user log of a job of that user and gemc submission
LogPath(user, gemc, cluster, proc) ==
  <<"/">> \o user \o <<"/", "j", "o", "b", "_">> \o gemc \o <<"/", "l", "o", "g", "/", "j", "o", "b", ".">> \o cluster \o <<".">> \o proc \o <<".", "l", "o", "g">>

GoodLog(c, p) == LogPath(<<"u">>, IntToStr(c - 2), IntToStr(c), IntToStr(p))

ScriptPath(c) == <<"/", "u">> \o <<"/", "j", "o", "b", "_">> \o IntToStr(c - 2) \o <<"/", "n", "o", "d", "e", "S", "c", "r", "i", "p", "t", ".", "s", "h">>

ErrPath(c, p) == DropLast4(GoodLog(c, p)) \o <<".", "e", "r", "r">>

\* a job that never ran
FreshJob(c, p, status) ==
  [ClusterId |-> c, ProcId |-> p, JobStatus |-> status, NumJobStarts |-> 0,
   RemoteUserCpu |-> 0, CumulativeSlotTime |-> 0, CumulativeRemoteUserCpu |-> 0,
   Args |-> <<"5", " ", "1", " ", "x">>, UserLog |-> GoodLog(c, p), CompletionDate |-> PyInt(0),
   TotalSubmitProcs |-> 3]

\* a job that ran starts times; a Completed one has its CompletionDate
StartedJob(c, p, status, starts) ==
  [ClusterId |-> c, ProcId |-> p, JobStatus |-> status, NumJobStarts |-> starts,
   RemoteUserCpu |-> 1800, CumulativeSlotTime |-> 7200, CumulativeRemoteUserCpu |-> 3600,
   Args |-> <<"5", " ", "1", " ", "x">>, UserLog |-> GoodLog(c, p),
   JobCurrentStartDate |-> 1000,
   CompletionDate |-> PyInt(IF job_states[status] = "C" THEN 4600 ELSE 0),
   RemoteHost |-> <<"s", "@", "n", ".", "j", ".", "o">>, LastRemoteHost |-> <<"s", "@", "n", ".", "j", ".", "o">>,
   MATCH_GLIDEIN_Site |-> <<"A">>, TotalSubmitProcs |-> 3]

PlainJobs(c, p) ==
  {FreshJob(c, p, status) : status \in {0, 1, 3, 5}} \cup
  {StartedJob(c, p, status, starts) : status \in 1..6, starts \in {1, 2}}

\* del job[key]
Without(job, key) == [k \in DOMAIN job \ {key} |-> job[k]]

\* the ways a record departs from the plain ones
Shapes ==
  {"plain", "nolog", "otherproc", "zeropad", "nomatch",
   "nostart", "noslot", "noargs", "nocpu", "short", "twohours", "odd",
   "noend", "nullend", "strend", "zerostart"}

Shaped(job, shape) ==
  CASE shape = "plain" -> job
    [] shape = "nolog" -> Without(job, "UserLog")
    [] shape = "otherproc" ->
         SetItem(job, "UserLog", GoodLog(job.ClusterId, job.ProcId + 1))
    [] shape = "zeropad" ->
         SetItem(job, "UserLog",
                 LogPath(<<"u">>, <<"5">>, <<"0">> \o IntToStr(job.ClusterId),
                         IntToStr(job.ProcId)))
    [] shape = "nomatch" ->
         SetItem(job, "UserLog",
                 LogPath(<<"U">>, <<"5">>, IntToStr(job.ClusterId), IntToStr(job.ProcId)))
    [] shape = "nostart" -> Without(job, "JobCurrentStartDate")
    [] shape = "noslot" -> Without(job, "CumulativeSlotTime")
    [] shape = "noargs" -> Without(job, "Args")
    [] shape = "nocpu" -> Without(job, "RemoteUserCpu")
    [] shape = "short" ->
         IF Has(job, "JobCurrentStartDate") /\ job.CompletionDate[2] > 0
         THEN SetItem(job, "CompletionDate", PyInt(job.JobCurrentStartDate + 10))
         ELSE job
    [] shape = "twohours" ->
         IF Has(job, "JobCurrentStartDate") /\ job.CompletionDate[2] > 0
         THEN SetItems(job, [CompletionDate |-> PyInt(job.JobCurrentStartDate + 2 * 60 * 60),
                             RemoteUserCpu |-> 3600])
         ELSE job
    [] shape = "odd" ->
         IF Has(job, "JobCurrentStartDate") /\ job.CompletionDate[2] > 0
         THEN SetItem(job, "CompletionDate", PyInt(job.JobCurrentStartDate + 5000))
         ELSE job
    [] shape = "noend" -> Without(job, "CompletionDate")
    [] shape = "nullend" -> SetItem(job, "CompletionDate", None)
    [] shape = "strend" -> SetItem(job, "CompletionDate", <<"n", "/", "a">>)
    [] shape = "zerostart" ->
         IF Has(job, "JobCurrentStartDate") THEN SetItem(job, "JobCurrentStartDate", 0) ELSE job

RawJobs(c, p) == {Shaped(job, shape) : job \in PlainJobs(c, p), shape \in Shapes}

\* the records that fill the other places of a map
Companions(c, p) ==
  <<StartedJob(c, p, 4, 1), StartedJob(c, p, 5, 2)>>

Item(k, job) == [id |-> DotPair(ClusterAt(k), ProcAt(k)), job |-> job]

\* the maps of n records of which the q-th is any record
MapsAround(n, q) ==
  {[k \in 1..n |-> IF k = q THEN Item(k, job)
                   ELSE Item(k, Companions(ClusterAt(k), ProcAt(k))[others[k]])] :
     job \in RawJobs(ClusterAt(q), ProcAt(q)), others \in [1..n -> 1..2]}

RecordMaps ==
  {<<>>} \cup UNION {MapsAround(n, q) : n \in 1..MaxRecords, q \in 1..MaxRecords}

\* the files of the submission directories
FileSystems ==
  { <<>>,
    (ScriptPath(7) :> <<"x", "\n", "E", "v", "e", "n", "t", "s", " ", "w", "i", "t", "h", " ", "g", "e", "n", "e", "r", "a", "t", "o", "r", " ", ">", "c", "l", "a", "s", "1", "2", "-", "d", "i", "s", "<", " ", "w", "i", "t", "h", " ", "o", "p", "t", "i", "o", "n", "s", "\n">>) @@
    (ScriptPath(8) :> <<"g", "e", "m", "c", " ", "-", "U", "S", "E", " ", "a", "\n">>) @@
    (ErrPath(7, 1) :> <<"a", "\n", "e", "x", "i", "t", " ", "2", "0", "3", "\n">>) @@
    (ErrPath(7, 2) :> <<"e", "x", "i", "t", " ", "2", "\n", "b", "\n", "c", "\n", "d">>) @@
    (ErrPath(8, 1) :> <<"e", "x", "i", "t", " ", "1", "\n", "a", "\n", "b", "\n", "c", "\n">>) @@
    (ErrPath(8, 2) :> <<"e", "x", "i", "t", " ", "x", "\n">>),
    (ScriptPath(7) :> <<"e", "c", "h", "o", " ", "L", "U", "N", "D", " ", "E", "v", "e", "n", "t", " ", "F", "i", "l", "e", ":", " ", "f", "\n">>) @@
    (ErrPath(7, 1) :> <<"e", "x", "i", "t", " ", "7", "\n", " ", "e", "x", "i", "t", " ", " ", "-", "1", " ", "\n">>) @@
    (ErrPath(7, 2) :> <<"e", "x", "i", "t", " ", "1", " ", "2", "\n">>) }

MungeSetup ==
  /\ condor_data \in RecordMaps
  /\ args \in [parseexit : BOOLEAN]
  /\ files \in FileSystems
  /\ now = 8200
  /\ generators = <<>>
  /\ script_reads = 0
  /\ munge_calls = 0
  /\ munge_err = ""
  /\ munge_at = 0
  /\ munge_first = <<>>

MungeIdle ==
  /\ condor_data = <<>>
  /\ args = [parseexit |-> FALSE]
  /\ files = <<>>
  /\ now = 0
  /\ generators = <<>>
  /\ script_reads = 0
  /\ munge_calls = 0
  /\ munge_err = ""
  /\ munge_at = 0
  /\ munge_first = <<>>

\* the program state after a call that leaves m
MungeReturn(m) ==
  /\ condor_data' = m.data
  /\ generators' = m.generators
  /\ script_reads' = m.reads
  /\ condor_data_tallies' = m.tallies
  /\ munge_err' = m.err
  /\ munge_at' = m.at
  /\ munge_first' = IF munge_calls = 0 THEN m.data ELSE munge_first

\* one call condor_munge(args); an exception ends the run
CondorMunge ==
  /\ munge_err = ""
  /\ munge_calls < MaxMunge
  /\ MungeReturn(condor_munge(condor_data, generators, script_reads, condor_data_tallies))
  /\ munge_calls' = munge_calls + 1
  /\ UNCHANGED <<args, files, now, tally_job, tally_err, ingested>>
  /\ UNCHANGED <<matcherVars, summaryVars, yieldVars, controlVars, loadVars, probeVars>>

----------------------------------------------------------------------------
(* condor_match and condor_yield *)

\* the seven module-level matchers before the first condor_match call
NoMatchers == [built |-> FALSE]

\* the matchers the first call builds from its request
BuildMatchers(a) ==
  [built |-> TRUE,
   condor |-> MatcherNew(a.condor), site |-> MatcherNew(a.site),
   gemc |-> MatcherNew(a.gemc), user |-> MatcherNew(a.user),
   exit |-> MatcherNew(a.exit), gen |-> MatcherNew(a.generator),
   host |-> MatcherNew(a.host)]

\* MatchersFor with the matchers built at every call
MatchersFor_Rebuilt(ms, a) == BuildMatchers(a)

\* the matchers after a condor_match call with request a
MatchersFor(ms, a) == IF ms.built THEN ms ELSE BuildMatchers(a)

\* the tests on the exit code
MatchExit(ms, job, a) ==
  IF a.noexit THEN Get(job, "ExitCode") = None ELSE matches(ms.exit, Get(job, "ExitCode"))

\* MatchState without the test of the held filter
MatchState_NoHeld(job, a) ==
  a.plot \/ ( /\ (a.idle => job_states[job.JobStatus] = "I")
              /\ (a.completed => job_states[job.JobStatus] = "C")
              /\ (a.running => job_states[job.JobStatus] = "R") )

\* the tests on the state, skipped when plotting
MatchState(job, a) ==
  a.plot \/ ( /\ (a.idle => job_states[job.JobStatus] = "I")
              /\ (a.completed => job_states[job.JobStatus] = "C")
              /\ (a.running => job_states[job.JobStatus] = "R")
              /\ (a.held => job_states[job.JobStatus] = "H") )

\* int(v) succeeds: v is an int, or a string that spells one
IntConverts(v) == IsPyInt(v) \/ (v # None /\ IsIntLiteral(v))

\* int(v) for such a v
IntConverted(v) == IF IsPyInt(v) THEN v[2] ELSE IntOf(v)

\* MatchEnd with the except clause rejecting the job
MatchEnd_RaiseRejects(job, a) ==
  /\ Has(job, "CompletionDate")
  /\ IntConverts(job.CompletionDate)
  /\ ~(IntConverted(job.CompletionDate) > a.end)

\* int(job['CompletionDate']) > int(args.end.timestamp()); what raises inside
\* the try (no such key, a null, a string that spells no integer) lets the
\* job through
MatchEnd(job, a) ==
  ~( /\ Has(job, "CompletionDate")
     /\ IntConverts(job.CompletionDate)
     /\ IntConverted(job.CompletionDate) > a.end )

\* condor_match(job, args) with the matchers ms, for a job whose 'condor' is a
\* string
condor_match(ms, job, a) ==
  /\ matches(ms.condor, BeforeFirst(job.condor, <<".">>))
  /\ matches(ms.gemc, Get(job, "gemc"))
  /\ matches(ms.user, Get(job, "user"))
  /\ pattern_matches(ms.site, Get(job, "MATCH_GLIDEIN_Site"))
  /\ pattern_matches(ms.host, Get(job, "LastRemoteHost"))
  /\ matches(ms.gen, Get(job, "generator"))
  /\ MatchExit(ms, job, a)
  /\ MatchState(job, a)
  /\ MatchEnd(job, a)

\* job.get('condor').split('.') raises on None
MatchRaises(job) == Get(job, "condor") = None

\* list(condor_yield(args)) when no condor_match call raises
RECURSIVE condor_yield(_, _, _)
condor_yield(ms, data, a) ==
  IF data = <<>> THEN <<>>
  ELSE (IF condor_match(ms, data[1].job, a) THEN <<data[1]>> ELSE <<>>) \o
       condor_yield(ms, Tail(data), a)

get_status_key(job) ==
  CASE job_states[job.JobStatus] = "H" -> "held"
    [] job_states[job.JobStatus] = "I" -> "idle"
    [] job_states[job.JobStatus] = "R" -> "run"
    [] job_states[job.JobStatus] = "C" -> "done"
    [] OTHER -> "other"

----------------------------------------------------------------------------
(* tools.average, tools.stddev, tools.sort_dict.  A list of numbers holds   *)
(* each number in hundredths; an ordered dictionary is the list of its      *)
(* items [key, v] in insertion order.                                        *)

RECURSIVE SumList(_)
SumList(alist) == IF alist = <<>> THEN 0 ELSE alist[1] + SumList(Tail(alist))

\* '%.2f' % (sum(alist) / len(alist)); a mean halfway between two hundredths
\* goes to the even one, as the format does when the mean is a binary fraction
average(alist) ==
  IF Len(alist) > 0 THEN Fmt2(Round2(SumList(alist), Len(alist))) ELSE null_field

\* sum([(x - float(m)) * (x - float(m)) for x in alist]), in ten-thousandths
SquaresAbout(alist, m) ==
  SumList([i \in DOMAIN alist |-> (alist[i] - Float100(m)) * (alist[i] - Float100(m))])

\* the whole number nearest to the square root of num / den
RootOf(num, den) ==
  CHOOSE r \in 0..(num \div den) + 1 :
    /\ (r = 0 \/ (2 * r - 1) * (2 * r - 1) * den <= 4 * num)
    /\ 4 * num < (2 * r + 1) * (2 * r + 1) * den

stddev(alist) ==
  IF Len(alist) > 0
  THEN Fmt2(RootOf(SquaresAbout(alist, average(alist)), Len(alist)))
  ELSE null_field

\* the index of key in the ordered dictionary d, 0 when it is not a key
KeyIndex(d, key) ==
  IF \E i \in DOMAIN d : d[i].key = key THEN CHOOSE i \in DOMAIN d : d[i].key = key ELSE 0

\* ordered_keys.insert(i, k)
InsertAt(alist, i, x) == SubSeq(alist, 1, i - 1) \o <<x>> \o SubSeq(alist, i, Len(alist))

\* SortPlace taking the first place whose entry is not greater
SortPlace_NotGreater(d, ordered, k, subkey) ==
  IF \E i \in DOMAIN ordered : d[k].v[subkey] >= d[ordered[i]].v[subkey]
  THEN CHOOSE i \in DOMAIN ordered :
         /\ d[k].v[subkey] >= d[ordered[i]].v[subkey]
         /\ \A j \in 1..(i - 1) : ~(d[k].v[subkey] >= d[ordered[j]].v[subkey])
  ELSE Len(ordered) + 1

\* the inner loop of sort_dict: the first place of ordered_keys whose entry
\* is smaller than item k, the end of the list when there is none
SortPlace(d, ordered, k, subkey) ==
  IF \E i \in DOMAIN ordered : d[k].v[subkey] > d[ordered[i]].v[subkey]
  THEN CHOOSE i \in DOMAIN ordered :
         /\ d[k].v[subkey] > d[ordered[i]].v[subkey]
         /\ \A j \in 1..(i - 1) : ~(d[k].v[subkey] > d[ordered[j]].v[subkey])
  ELSE Len(ordered) + 1

\* the outer loop of sort_dict from item k on: ordered_keys, as places of d
RECURSIVE SortLoop(_, _, _, _)
SortLoop(d, ordered, k, subkey) ==
  IF k > Len(d) THEN ordered
  ELSE SortLoop(d, InsertAt(ordered, SortPlace(d, ordered, k, subkey), k), k + 1, subkey)

OrderedBy(d, ordered) == [i \in DOMAIN ordered |-> d[ordered[i]]]

sort_dict(d, subkey) == OrderedBy(d, SortLoop(d, <<>>, 1, subkey))

----------------------------------------------------------------------------
(* summary.py.  The running state of a summary loop is c = [ret, err].      *)

\* d[key] = v for a new key
NewGroup(d, key, v) == Append(d, [key |-> key, v |-> v])

\* job.copy() updated with config.job_counts.copy() and the empty lists
ClusterGroup(job) == SetItems(SetItems(job, job_counts), [eff |-> <<>>, ceff |-> <<>>, att |-> <<>>])

ClusterEnter(ret, cluster_id, job) ==
  IF KeyIndex(ret, cluster_id) = 0 THEN NewGroup(ret, cluster_id, ClusterGroup(job)) ELSE ret

\* ret[cluster_id][get_status_key(job)] += 1
ClusterCount(v, job) == [v EXCEPT ![get_status_key(job)] = @ + 1]

\* ClusterDone with the running jobs left in the count
ClusterDone_KeepRun(v) == [v EXCEPT !.done = v.TotalSubmitProcs - v.held - v.idle]

\* done = TotalSubmitProcs - held - idle - run
ClusterDone(v) == [v EXCEPT !.done = v.TotalSubmitProcs - v.held - v.idle - v.run]

ClusterAtt(v, job) ==
  IF job.NumJobStarts > 0 THEN [v EXCEPT !.att = Append(@, 100 * job.NumJobStarts)] ELSE v

ClusterEff(v, job) == [v EXCEPT !.eff = Append(@, Float100(job.eff))]

ClusterCeff(v, job) == [v EXCEPT !.ceff = Append(@, Float100(job.ceff))]

\* the try block: the first statement that raises ends it
ClusterTry(v, job) ==
  IF ~Has(job, "NumJobStarts") THEN v
  ELSE IF Get(job, "eff") = None THEN ClusterAtt(v, job)
  ELSE IF Get(job, "ceff") = None THEN ClusterEff(ClusterAtt(v, job), job)
  ELSE ClusterCeff(ClusterEff(ClusterAtt(v, job), job), job)

\* the loop body of condor_cluster_summary on the group v of the record
ClusterFoldGroup(c, g, job) ==
  IF ~Has(c.ret[g].v, "TotalSubmitProcs")
  THEN [ret |-> [c.ret EXCEPT ![g].v = ClusterCount(@, job)], err |-> "KeyError"]
  ELSE [ret |-> [c.ret EXCEPT ![g].v = ClusterTry(ClusterDone(ClusterCount(@, job)), job)],
        err |-> ""]

ClusterFoldIn(ret, cluster_id, job) ==
  ClusterFoldGroup([ret |-> ret, err |-> ""], KeyIndex(ret, cluster_id), job)

ClusterFold(c, item) ==
  ClusterFoldIn(ClusterEnter(c.ret, BeforeFirst(item.id, <<".">>), item.job),
                BeforeFirst(item.id, <<".">>), item.job)

\* the closing loop: the three lists become their averages
ClusterAverages(v) ==
  [v EXCEPT !.eff = average(@), !.ceff = average(@), !.att = average(@)]

ClusterClose(c) ==
  IF c.err # "" THEN c
  ELSE [c EXCEPT !.ret = [i \in DOMAIN c.ret |-> [c.ret[i] EXCEPT !.v = ClusterAverages(@)]]]

\* sites[site] = job.copy() with the counts and the empty wallhr list
SiteGroup(job) == SetItems(SetItems(job, job_counts), [wallhr |-> <<>>])

SiteEnter(ret, site, job) ==
  IF KeyIndex(ret, site) = 0 THEN NewGroup(ret, site, SiteGroup(job)) ELSE ret

\* SiteCount with the count of the state alone
SiteCount_StateOnly(v, job) == [v EXCEPT ![get_status_key(job)] = @ + 1]

\* sites[site]['total'] += 1 and sites[site][get_status_key(job)] += 1
SiteCount(v, job) == [v EXCEPT !.total = @ + 1, ![get_status_key(job)] = @ + 1]

\* float(job.get('wallhr')) raises on None, inside the try
SiteWallhr(v, job, a) ==
  IF (a.running \/ job_states[job.JobStatus] = "C") /\ Get(job, "wallhr") # None
  THEN [v EXCEPT !.wallhr = Append(@, Float100(job.wallhr))]
  ELSE v

SiteFoldIn(ret, site, job, a) ==
  [ret |-> [ret EXCEPT ![KeyIndex(ret, site)].v = SiteWallhr(SiteCount(@, job), job, a)],
   err |-> ""]

SiteFold(c, item, a) ==
  SiteFoldIn(SiteEnter(c.ret, Get(item.job, "MATCH_GLIDEIN_Site"), item.job),
             Get(item.job, "MATCH_GLIDEIN_Site"), item.job, a)

\* the closing loop of condor_site_summary on one group
SiteFigures(v, a) ==
  SetItems(v, [ewallhr |-> stddev(v.wallhr), wallhr |-> average(v.wallhr),
               done |-> IF a.hours <= 0 THEN null_field ELSE PyInt(v.done)])

SiteClose(c, a) ==
  IF c.err # "" THEN c
  ELSE [c EXCEPT !.ret = [i \in DOMAIN c.ret |-> [c.ret[i] EXCEPT !.v = SiteFigures(@, a)]]]

\* x[job.get('ExitCode')] += 1, the code entered with 0 when it is new
ExitCount(x, job) ==
  IF Get(job, "ExitCode") = None THEN x
  ELSE IF KeyIndex(x, job.ExitCode) = 0 THEN NewGroup(x, job.ExitCode, 1)
  ELSE [x EXCEPT ![KeyIndex(x, job.ExitCode)].v = @ + 1]

ExitFold(c, item) == [c EXCEPT !.ret = ExitCount(@, item.job)]

\* sum(x.values())
RECURSIVE SumValues(_)
SumValues(x) == IF x = <<>> THEN 0 ELSE x[1].v + SumValues(Tail(x))

\* config.exit_codes.get(k)
ExitName(k) == IF k[2] \in DOMAIN exit_codes THEN exit_codes[k[2]] ELSE "None"

\* one line '%4s  %8d %6.2f%%  %s' of the exit code summary, as its four values
ExitLine(k, v, tot) ==
  [code |-> k, count |-> v, percent |-> Fmt2(Round2(10000 * v, tot)), name |-> ExitName(k)]

\* the lines joined into the text returned, one for every code counted
ExitClose(c) ==
  IF c.err # "" THEN c
  ELSE [c EXCEPT !.ret = [i \in DOMAIN c.ret |->
                            ExitLine(c.ret[i].key, c.ret[i].v, SumValues(c.ret))]]

\* the loop "for condor_id, job in condor_yield(args)" of a summary from item
\* i of the record map on; an exception leaves it
RECURSIVE SummaryLoop(_, _, _, _, _, _)
SummaryLoop(kind, ms, data, a, c, i) ==
  IF i > Len(data) \/ c.err # "" THEN c
  ELSE IF MatchRaises(data[i].job) THEN [c EXCEPT !.err = "AttributeError"]
  ELSE IF ~condor_match(ms, data[i].job, a) THEN SummaryLoop(kind, ms, data, a, c, i + 1)
  ELSE SummaryLoop(kind, ms, data, a,
                   IF kind = "cluster" THEN ClusterFold(c, data[i])
                   ELSE IF kind = "site" THEN SiteFold(c, data[i], a)
                   ELSE ExitFold(c, data[i]),
                   i + 1)

\* condor_cluster_summary(args): [ret, err]
condor_cluster_summary(ms, data, a) ==
  ClusterClose(SummaryLoop("cluster", ms, data, a, [ret |-> <<>>, err |-> ""], 1))

\* sites as condor_site_summary has it before the sort: [ret, err]
SitesUnsorted(ms, data, a) ==
  SiteClose(SummaryLoop("site", ms, data, a, [ret |-> <<>>, err |-> ""], 1), a)

SiteSort(c) == IF c.err # "" THEN c ELSE [c EXCEPT !.ret = sort_dict(@, "total")]

\* condor_site_summary(args): [ret, err]
condor_site_summary(ms, data, a) == SiteSort(SitesUnsorted(ms, data, a))

\* condor_exit_code_summary(args): [ret, err]
condor_exit_code_summary(ms, data, a) ==
  ExitClose(SummaryLoop("exit", ms, data, a, [ret |-> <<>>, err |-> ""], 1))

(* condor_efficiency_summary().  A line of its text is the tuple of its      *)
(* label and the numbers it shows, a quotient as its two operands.           *)

\* a line with a quotient: dividing by zero raises
Quotient(c, label, num, den, zero) ==
  IF c.err # "" THEN c
  ELSE IF den = zero THEN [c EXCEPT !.err = "ZeroDivisionError"]
  ELSE [c EXCEPT !.ret = Append(@, <<label, num, den>>)]

\* the lines of the two counts
EffCounts(x) ==
  [ret |-> << <<"goodattempts", x.goodattempts>>, <<"badattempts", x.badattempts>> >>, err |-> ""]

\* sum(x['attempts']) / len(x['attempts'])
EffAverage(x, c) == Quotient(c, "attempts", SumList(x.attempts), Len(x.attempts), 0)

\* the lines of the hours: x['totalwall'] and x['totalcpu'] are read first
EffHours(x, c) ==
  IF c.err # "" THEN c
  ELSE IF ~Has(x, "totalwall") \/ ~Has(x, "totalcpu") THEN [c EXCEPT !.err = "KeyError"]
  ELSE [c EXCEPT !.ret = @ \o << <<"total", x.totalwall, x.totalcpu>>,
                                  <<"bad", x.badwall, x.badcpu>>,
                                  <<"good", x.goodwall, x.goodcpu>> >>]

\* GoodWallPositive with the test left out
GoodWallPositive_Always(x) == TRUE

\* x['goodwall'] > 0
GoodWallPositive(x) == DLess(DInt(0), x.goodwall)

EffUtilization(x, c) ==
  IF c.err = "" /\ GoodWallPositive(x)
  THEN Quotient(c, "utilization", 100 * x.goodcpu, x.goodwall, DInt(0))
  ELSE c

\* x['totalwall'] > 0
TotalWallPositive(x) == DLess(DInt(0), x.totalwall)

EffFractions(x, c) ==
  IF c.err # "" THEN c
  ELSE IF ~Has(x, "totalwall") THEN [c EXCEPT !.err = "KeyError"]
  ELSE IF TotalWallPositive(x)
  THEN Quotient(Quotient(c, "goodfraction", <<100, x.goodwall>>, x.totalwall, DInt(0)),
                "efficiency", 100 * x.goodcpu, x.totalwall, DInt(0))
  ELSE c

\* condor_efficiency_summary() on the tallies x: [ret, err]
condor_efficiency_summary(x) ==
  IF Len(x.attempts) > 0
  THEN EffFractions(x, EffUtilization(x, EffHours(x, EffAverage(x, EffCounts(x)))))
  ELSE [ret |-> <<>>, err |-> ""]

(* A group of the cluster and of the site summary is a dictionary object that *)
(* the loop and the closing loop write to.  GroupObject(i) is the place in    *)
(* the record map of the record that this object is, for the group that the   *)
(* record at place i opened: 0 when it is no record of the map.               *)

\* ret[key] = job: the group is the record itself
GroupObject_TheRecord(i) == i

\* ret[key] = job.copy(): a dictionary of its own
GroupObject(i) == 0

\* the key under which a summary groups the record
GroupKey(kind, item) ==
  IF kind = "cluster" THEN BeforeFirst(item.id, <<".">>) ELSE Get(item.job, "MATCH_GLIDEIN_Site")

Folded(kind, ms, data, a, i, key) ==
  /\ ~MatchRaises(data[i].job)
  /\ condor_match(ms, data[i].job, a)
  /\ GroupKey(kind, data[i]) = key

\* the place of the record that opened the group of the key
Opener(kind, ms, data, a, key) ==
  CHOOSE i \in DOMAIN data :
    /\ Folded(kind, ms, data, a, i, key)
    /\ \A j \in 1..(i - 1) : ~Folded(kind, ms, data, a, j, key)

\* the record map once the summary has written to its groups c.ret: a record
\* that is the object of a group has what was written to the group
DataAfter(kind, ms, data, a, c) ==
  [i \in DOMAIN data |->
     IF \E g \in DOMAIN c.ret : GroupObject(Opener(kind, ms, data, a, c.ret[g].key)) = i
     THEN [data[i] EXCEPT !.job =
             c.ret[CHOOSE g \in DOMAIN c.ret :
                     GroupObject(Opener(kind, ms, data, a, c.ret[g].key)) = i].v]
     ELSE data[i]]

----------------------------------------------------------------------------
(* The summaries are asked for once the record map is loaded and            *)
(* normalised.                                                               *)

\* a request with no criteria and no flags; end is args.end.timestamp()
PlainRequest ==
  [parseexit |-> FALSE, condor |-> <<>>, site |-> <<>>, gemc |-> <<>>, user |-> <<>>,
   exit |-> <<>>, generator |-> <<>>, host |-> <<>>, noexit |-> FALSE, plot |-> FALSE,
   idle |-> FALSE, completed |-> FALSE, running |-> FALSE, held |-> FALSE,
   hours |-> 0, end |-> 9000]

Requests ==
  { PlainRequest,
    [PlainRequest EXCEPT !.parseexit = TRUE],
    [PlainRequest EXCEPT !.hours = 1],
    [PlainRequest EXCEPT !.hours = 1, !.running = TRUE],
    [PlainRequest EXCEPT !.site = <<<<"-", "B">>>>] }

\* a record of the given site (None: the job was matched to no site yet)
AtSite(job, site) ==
  IF site = None THEN Without(job, "MATCH_GLIDEIN_Site")
  ELSE SetItem(job, "MATCH_GLIDEIN_Site", site)

\* the kinds of record of the summarised maps
SummaryJobs(c, p) ==
  << AtSite(StartedJob(c, p, 4, 1), <<"A">>),
     AtSite(StartedJob(c, p, 2, 2), <<"A">>),
     AtSite(StartedJob(c, p, 4, 2), <<"B">>),
     AtSite(StartedJob(c, p, 5, 1), <<"B">>),
     AtSite(FreshJob(c, p, 1), None),
     AtSite(StartedJob(c, p, 3, 1), <<"C">>) >>

MapOfKinds(kinds) ==
  [k \in DOMAIN kinds |-> Item(k, SummaryJobs(ClusterAt(k), ProcAt(k))[kinds[k]])]

\* 5 records at site A, then 9 at site B, then 3 at site C, all Completed
ManySites ==
  [k \in 1..17 |->
     Item(k, AtSite(StartedJob(ClusterAt(k), ProcAt(k), 4, 1),
                    IF k <= 5 THEN <<"A">> ELSE IF k <= 14 THEN <<"B">> ELSE <<"C">>))]

\* sites A, B, B, C: one group larger than two equal ones
TiedSites == MapOfKinds(<<1, 3, 4, 6>>)

SummaryMaps ==
  {ManySites, TiedSites} \cup
  UNION {{MapOfKinds(kinds) : kinds \in [1..n -> 1..6]} : n \in 0..MaxSummary}

SummaryIdle ==
  /\ matchers = NoMatchers
  /\ summary_call = ""
  /\ summary_ret = <<>>
  /\ summary_sites = <<>>
  /\ summary_err = ""

SummarySetup ==
  /\ condor_data \in SummaryMaps
  /\ args \in Requests
  /\ files \in {f \in FileSystems : ScriptPath(8) \in DOMAIN f}
  /\ now = 8200
  /\ generators = <<>>
  /\ script_reads = 0
  /\ munge_calls = 0
  /\ munge_err = ""
  /\ munge_at = 0
  /\ munge_first = <<>>

\* condor_query / condor_read: the one normalisation of the loaded map
LoadMunge == munge_calls = 0 /\ CondorMunge

AfterLoad == munge_calls > 0 /\ munge_err = ""

\* the first condor_match call builds the matchers
MatchersAfter == IF Len(condor_data) > 0 THEN MatchersFor(matchers, args) ELSE matchers

SummaryReturn(kind, c, sites, data) ==
  /\ summary_call' = kind
  /\ summary_ret' = IF c.err = "" THEN c.ret ELSE <<>>
  /\ summary_sites' = sites
  /\ summary_err' = c.err
  /\ matchers' = MatchersAfter
  /\ condor_data' = data
  /\ UNCHANGED <<generators, script_reads, args, now, files,
                 munge_calls, munge_err, munge_at, munge_first>>
  /\ UNCHANGED <<matcherVars, tallyVars, yieldVars, controlVars, loadVars, probeVars>>

\* a summary that went through its loop and its closing loop
Summarised(kind, c, sites) ==
  SummaryReturn(kind, c, sites, DataAfter(kind, MatchersAfter, condor_data, args, c))

\* one call condor_cluster_summary(args)
ClusterSummary ==
  /\ AfterLoad
  /\ Summarised("cluster", condor_cluster_summary(MatchersAfter, condor_data, args), <<>>)

\* one call condor_site_summary(args); summary_sites keeps the groups as they
\* were handed to sort_dict
SiteSummary ==
  /\ AfterLoad
  /\ Summarised("site", condor_site_summary(MatchersAfter, condor_data, args),
                SitesUnsorted(MatchersAfter, condor_data, args).ret)

\* one call condor_exit_code_summary(args); it writes to its own counts only
ExitCodeSummary ==
  /\ AfterLoad
  /\ SummaryReturn("exit", condor_exit_code_summary(MatchersAfter, condor_data, args), <<>>,
                   condor_data)

\* one call condor_efficiency_summary()
EfficiencySummary ==
  /\ tally_err = ""
  /\ summary_call' = "efficiency"
  /\ summary_ret' = condor_efficiency_summary(condor_data_tallies).ret
  /\ summary_err' = condor_efficiency_summary(condor_data_tallies).err
  /\ UNCHANGED <<matchers, summary_sites>>
  /\ UNCHANGED <<matcherVars, tallyVars, mungeVars, yieldVars, controlVars, loadVars, probeVars>>

\* the records are ingested before a summary is asked for
Ingest == summary_call = "" /\ CondorTally

----------------------------------------------------------------------------
(* condor_yield run through once over a normalised record map *)

\* the for loop of condor_yield from item i on, c = [ret, err] what it has
\* yielded; the condor_match call on a job without a 'condor' string raises
RECURSIVE YieldLoop(_, _, _, _, _)
YieldLoop(ms, data, a, c, i) ==
  IF i > Len(data) \/ c.err # "" THEN c
  ELSE IF MatchRaises(data[i].job) THEN [c EXCEPT !.err = "AttributeError"]
  ELSE YieldLoop(ms, data, a,
                 IF condor_match(ms, data[i].job, a) THEN [c EXCEPT !.ret = Append(@, data[i])]
                 ELSE c,
                 i + 1)

\* the kinds of record of the filtered maps
YieldJobs(c, p) ==
  << StartedJob(c, p, 4, 1),
     StartedJob(c, p, 2, 1),
     StartedJob(c, p, 5, 1),
     FreshJob(c, p, 1),
     StartedJob(c, p, 3, 1),
     Shaped(StartedJob(c, p, 4, 1), "noend"),
     Shaped(StartedJob(c, p, 4, 1), "nullend"),
     Shaped(StartedJob(c, p, 5, 1), "strend"),
     Shaped(StartedJob(c, p, 4, 1), "nolog") >>

\* the maps of n records of which the q-th is of any kind and the others are
\* Completed
YieldMapsAround(n, q) ==
  {[k \in 1..n |-> Item(k, YieldJobs(ClusterAt(k), ProcAt(k))[IF k = q THEN kind ELSE 1])] :
     kind \in 1..9}

YieldMaps == UNION {YieldMapsAround(n, q) : n \in 1..MaxRecords, q \in 1..MaxRecords}

\* the requests: a cluster-id criterion, any of the state filters, plotting or
\* not, an end of the report window
YieldCriteria == {<<>>, << <<"7", ".", "1">> >>, << <<"7">> >>, << <<"8">> >>}

YieldRequests ==
  {[PlainRequest EXCEPT !.condor = crit, !.idle = flags[1], !.completed = flags[2],
                        !.running = flags[3], !.held = flags[4], !.plot = plot, !.end = end] :
     crit \in YieldCriteria,
     flags \in [1..4 -> BOOLEAN], plot \in BOOLEAN, end \in {4599, 4600, 9000}}

YieldIdle ==
  /\ yield_calls = 0
  /\ yield_ret = <<>>
  /\ yield_err = ""

YieldSetup ==
  /\ condor_data \in YieldMaps
  /\ args \in YieldRequests
  /\ files = <<>>
  /\ now = 8200
  /\ generators = <<>>
  /\ script_reads = 0
  /\ munge_calls = 0
  /\ munge_err = ""
  /\ munge_at = 0
  /\ munge_first = <<>>

YieldReturn(c) ==
  /\ yield_ret' = c.ret
  /\ yield_err' = c.err
  /\ yield_calls' = yield_calls + 1
  /\ matchers' = MatchersAfter
  /\ UNCHANGED <<summary_call, summary_ret, summary_sites, summary_err>>
  /\ UNCHANGED <<matcherVars, tallyVars, mungeVars, controlVars, loadVars, probeVars>>

\* one run through condor_yield(args); an exception ends the run
CondorYield ==
  /\ AfterLoad
  /\ yield_err = ""
  /\ yield_calls < MaxYield
  /\ YieldReturn(YieldLoop(MatchersAfter, condor_data, args, [ret |-> <<>>, err |-> ""], 1))

\* the first run through condor_yield(args) of the process
YieldFirst == yield_calls = 0 /\ CondorYield

\* a later run through condor_yield with a request of other criteria
CondorYieldAgain ==
  /\ AfterLoad
  /\ yield_err = ""
  /\ yield_calls > 0
  /\ yield_calls < MaxYield
  /\ \E crit \in YieldCriteria \ {args.condor} :
       LET a == [args EXCEPT !.condor = crit]
           ms == IF Len(condor_data) > 0 THEN MatchersFor(matchers, a) ELSE matchers
           c == YieldLoop(ms, condor_data, a, [ret |-> <<>>, err |-> ""], 1)
       IN  /\ args' = a
           /\ matchers' = ms
           /\ yield_ret' = c.ret
           /\ yield_err' = c.err
  /\ yield_calls' = yield_calls + 1
  /\ UNCHANGED <<summary_call, summary_ret, summary_sites, summary_err>>
  /\ UNCHANGED <<condor_data, generators, script_reads, now, files,
                 munge_calls, munge_err, munge_at, munge_first>>
  /\ UNCHANGED <<matcherVars, tallyVars, controlVars, loadVars, probeVars>>

----------------------------------------------------------------------------
(* Job control: condor_vacate_job and condor_hold_job over the yielded jobs  *)
(*                                                                           *)
(* What the external command does is an input: it exits non-zero             *)
(* (check_output raises CalledProcessError), or it prints bytes that are not *)
(* UTF-8 (decode raises UnicodeDecodeError), or it prints a text.            *)

\* re.fullmatch(pattern, s) is not None, for a pattern whose only special
\* character is '.', which stands for any character but a newline
FullMatch(pattern, s) ==
  /\ Len(pattern) = Len(s)
  /\ \A i \in DOMAIN pattern : IF pattern[i] = "." THEN s[i] # "\n" ELSE s[i] = pattern[i]

\* 'Job %s fast-vacated' % condorid
Confirmation(condorid) == <<"J", "o", "b", " ">> \o condorid \o <<" ", "f", "a", "s", "t", "-", "v", "a", "c", "a", "t", "e", "d">>

\* check_output(cmd).decode('UTF-8').rstrip(): the exception raised and the
\* value response has in the handler
Response(o) ==
  IF o.kind = "bytes" THEN [err |-> "", response |-> RStrip(o.out)]
  ELSE IF o.kind = "raise" THEN [err |-> "CalledProcessError", response |-> None]
  ELSE [err |-> "UnicodeDecodeError", response |-> None]

\* 'ERROR running command "%s":\n%s' % (' '.join(cmd), response)
ErrorText(cmd, response) ==
  <<"E", "R", "R", "O", "R", " ", "r", "u", "n", "n", "i", "n", "g", " ", "c", "o", "m", "m", "a", "n", "d", " ", "\"">> \o Join(<<" ">>, cmd) \o <<"\"", ":", "\n">> \o Str(response)

\* str(MATCH_GLIDEIN_Site) + ' ' + str(RemoteHost) + ' ' + str(condorid)
VacatedLine(job) ==
  Str(Get(job, "MATCH_GLIDEIN_Site")) \o <<" ">> \o Str(Get(job, "RemoteHost")) \o <<" ">> \o
  Str(Get(job, "condorid"))

\* what one call does: the command lines it hands to check_output, the texts
\* it prints, the exception that leaves it.  A command line with a None in it
\* makes check_output raise TypeError before anything is run, and the join of
\* the handler raise it again.
condor_vacate_job(job, o) ==
  LET cmd == <<<<"c", "o", "n", "d", "o", "r", "_", "v", "a", "c", "a", "t", "e", "_", "j", "o", "b">>, <<"-", "f", "a", "s", "t">>, Get(job, "condorid")>>
      r == Response(o)
      refused == r.err # "" \/ ~FullMatch(Confirmation(Get(job, "condorid")), r.response)
  IN  IF Get(job, "condorid") = None
      THEN [commands |-> <<>>, printed |-> <<>>, err |-> "TypeError"]
      ELSE [commands |-> <<cmd>>,
            printed |-> (IF refused THEN <<ErrorText(cmd, r.response)>> ELSE <<>>) \o
                        <<VacatedLine(job)>>,
            err |-> ""]

condor_hold_job(job, o) ==
  LET cmd == <<<<"c", "o", "n", "d", "o", "r", "_", "h", "o", "l", "d">>, Get(job, "condorid")>>
      r == Response(o)
  IN  IF Get(job, "condorid") = None
      THEN [commands |-> <<>>, printed |-> <<>>, err |-> "TypeError"]
      ELSE [commands |-> <<cmd>>,
            printed |-> IF r.err = "" THEN <<r.response>> ELSE <<ErrorText(cmd, r.response)>>,
            err |-> ""]

\* the batch loop vacates the Running jobs whose wall hours exceed args.vacate
VacateWanted(job, c) ==
  /\ c.vacate > 0
  /\ Get(job, "wallhr") # None
  /\ Float100(Get(job, "wallhr")) > c.vacate
  /\ job.JobStatus \in DOMAIN job_states
  /\ job_states[job.JobStatus] = "R"

\* what condor_vacate_job may find the command to have done for that job
VacateOutcomes(condorid) ==
  {[kind |-> "raise", out |-> <<>>], [kind |-> "undecodable", out |-> <<>>]} \cup
  {[kind |-> "bytes", out |-> out] :
     out \in {Confirmation(condorid) \o <<"\n">>,
              Confirmation(condorid) \o <<" ", "\n">>,
              <<" ">> \o Confirmation(condorid),
              Confirmation([i \in DOMAIN condorid |->
                              IF condorid[i] = "." THEN "1" ELSE condorid[i]]) \o <<"\n">>}}

HoldOutcomes ==
  {[kind |-> "raise", out |-> <<>>], [kind |-> "undecodable", out |-> <<>>],
   [kind |-> "bytes", out |-> <<>>], [kind |-> "bytes", out |-> <<"o", "k", "\n">>]}

\* the maps of the batches: every record Running or Held
ControlMaps ==
  UNION {{[k \in 1..n |-> Item(k, YieldJobs(ClusterAt(k), ProcAt(k))[kinds[k]])] :
            kinds \in [1..n -> {2, 3}]} : n \in 1..MaxRecords}

\* the requests: vacate above 1.5 or 2 wall hours, or hold; all jobs or one
\* cluster
ControlRequests ==
  {[mode |-> "vacate", vacate |-> 150], [mode |-> "vacate", vacate |-> 200],
   [mode |-> "hold", vacate |-> -100]}

ControlIdle ==
  /\ control = [mode |-> "", vacate |-> -100]
  /\ control_at = 0
  /\ commands = <<>>
  /\ printed = <<>>
  /\ control_log = <<>>
  /\ control_err = ""

ControlSetup ==
  /\ control \in ControlRequests
  /\ control_at = 0
  /\ commands = <<>>
  /\ printed = <<>>
  /\ control_log = <<>>
  /\ control_err = ""
  /\ condor_data \in ControlMaps
  /\ args \in {PlainRequest, [PlainRequest EXCEPT !.condor = << <<"7">> >>]}
  /\ files = <<>>
  /\ now = 8200
  /\ generators = <<>>
  /\ script_reads = 0
  /\ munge_calls = 0
  /\ munge_err = ""
  /\ munge_at = 0
  /\ munge_first = <<>>

\* the loop is at a yielded job
AtYielded ==
  /\ yield_calls > 0
  /\ yield_err = ""
  /\ control_err = ""
  /\ control_at < Len(yield_ret)

\* the call returned r for the job under id after the command did o
ControlReturn(id, o, r) ==
  /\ control_at' = control_at + 1
  /\ commands' = commands \o r.commands
  /\ printed' = printed \o r.printed
  /\ control_log' = Append(control_log, [id |-> id, mode |-> control.mode, o |-> o,
                                         commands |-> r.commands, printed |-> r.printed,
                                         err |-> r.err])
  /\ control_err' = r.err
  /\ UNCHANGED <<control, matcherVars, tallyVars, mungeVars, summaryVars, yieldVars, loadVars, probeVars>>

\* the loop passes a job it has nothing to do for
ControlPass ==
  /\ control_at' = control_at + 1
  /\ UNCHANGED <<control, commands, printed, control_log, control_err>>
  /\ UNCHANGED <<matcherVars, tallyVars, mungeVars, summaryVars, yieldVars, loadVars, probeVars>>

\* one turn of the batch loop when vacating
VacateNext ==
  /\ AtYielded
  /\ control.mode = "vacate"
  /\ LET item == yield_ret[control_at + 1]
     IN  IF VacateWanted(item.job, control)
         THEN \E o \in VacateOutcomes(item.id) :
                ControlReturn(item.id, o, condor_vacate_job(item.job, o))
         ELSE ControlPass

\* one turn of the batch loop when holding
HoldNext ==
  /\ AtYielded
  /\ control.mode = "hold"
  /\ LET item == yield_ret[control_at + 1]
     IN  \E o \in HoldOutcomes : ControlReturn(item.id, o, condor_hold_job(item.job, o))

----------------------------------------------------------------------------
(* Loading: condor_query (condor_q, condor_history) and condor_read          *)
(*                                                                           *)
(* What an external command answers is an input: it exits non-zero, or it    *)
(* prints nothing, or a text that is not JSON, or a JSON array of objects.   *)
(* The running state of a load is l = [data, commands, printed, log, err].   *)

\* 'ClusterId' in x and 'ProcId' in x
CarriesIds(x) == Has(x, "ClusterId") /\ Has(x, "ProcId")

\* condor_data[key] = x: an OrderedDict keeps the place of a key it has
PutItem(data, key, x) ==
  IF \E i \in DOMAIN data : data[i].id = key
  THEN [i \in DOMAIN data |-> IF data[i].id = key THEN [id |-> key, job |-> x] ELSE data[i]]
  ELSE Append(data, [id |-> key, job |-> x])

StoreEntry_KeepEarlier(data, x) ==
  IF CarriesIds(x) /\ ~\E i \in DOMAIN data : data[i].id = DotPair(x.ClusterId, x.ProcId)
  THEN PutItem(data, DotPair(x.ClusterId, x.ProcId), x)
  ELSE data

\* the body of the loop over the entries of an array
StoreEntry(data, x) ==
  IF CarriesIds(x) THEN PutItem(data, DotPair(x.ClusterId, x.ProcId), x) ELSE data

RECURSIVE StoreEntries(_, _, _)
StoreEntries(data, entries, i) ==
  IF i > Len(entries) THEN data
  ELSE StoreEntries(StoreEntry(data, entries[i]), entries, i + 1)

\* the handler of condor_add_json: two prints and sys.exit(1)
AddJsonFails(l, cmd, response) ==
  [l EXCEPT !.commands = Append(@, cmd),
            !.printed = @ \o <<<<"E", "r", "r", "o", "r", " ", "r", "u", "n", "n", "i", "n", "g", " ", "c", "o", "m", "m", "a", "n", "d", ":", " ", " ">> \o Join(<<" ">>, cmd) \o <<":">>, Str(response)>>,
            !.err = "SystemExit"]

\* condor_add_json(cmd) when the command answers r
condor_add_json(l, cmd, r) ==
  IF l.err # "" THEN l
  ELSE IF r.kind = "raise" THEN AddJsonFails(l, cmd, None)
  ELSE IF r.kind = "invalid" THEN AddJsonFails(l, cmd, r.out)
  ELSE IF r.kind = "empty" THEN [l EXCEPT !.commands = Append(@, cmd)]
  ELSE [l EXCEPT !.commands = Append(@, cmd),
                 !.data = StoreEntries(@, r.out, 1),
                 !.log = Append(@, r.out)]

\* the constraints of condor_query: the criteria of args.condor that are no
\* vetoes
RECURSIVE Constraints(_)
Constraints(alist) ==
  IF alist = <<>> THEN <<>>
  ELSE (IF StartsWith(alist[1], <<"-">>) THEN <<>> ELSE <<alist[1]>>) \o Constraints(Tail(alist))

QueryOpts(a) ==
  (IF a.held THEN <<<<"-", "h", "o", "l", "d">>>> ELSE <<>>) \o (IF a.running THEN <<<<"-", "r", "u", "n">>>> ELSE <<>>)

condor_q(l, constraints, opts, r) ==
  condor_add_json(l, <<<<"c", "o", "n", "d", "o", "r", "_", "q">>, <<"g", "e", "m", "c">>>> \o constraints \o opts \o <<<<"-", "n", "o", "b", "a", "t", "c", "h">>, <<"-", "j", "s", "o", "n">>>>, r)

\* args.end less args.hours, in seconds, printed into the -since expression
condor_history(l, a, constraints, r) ==
  condor_add_json(l, <<<<"c", "o", "n", "d", "o", "r", "_", "h", "i", "s", "t", "o", "r", "y">>, <<"g", "e", "m", "c">>>> \o constraints \o
                     <<<<"-", "j", "s", "o", "n">>, <<"-", "s", "i", "n", "c", "e">>, <<"C", "o", "m", "p", "l", "e", "t", "i", "o", "n", "D", "a", "t", "e", "!", "=", "0", "&", "&", "C", "o", "m", "p", "l", "e", "t", "i", "o", "n", "D", "a", "t", "e", "<">> \o IntToStr(a.end - 3600 * a.hours)>>, r)

RunsQ(a) == ~a.completed \/ a.plot

RunsHistory(a) == a.hours > 0

\* condor_query(args) up to its condor_munge call
condor_query(l, a, q, h) ==
  LET afterq == IF RunsQ(a) THEN condor_q(l, Constraints(a.condor), QueryOpts(a), q) ELSE l
  IN  IF RunsHistory(a) THEN condor_history(afterq, a, Constraints(a.condor), h) ELSE afterq

\* a pre-keyed mapping takes the place of the record map, whatever its keys
ReadDict(l, d) == [l EXCEPT !.data = d]

\* condor_read(args) up to its condor_munge call, when the file is f
condor_read(l, f) ==
  IF f.kind = "missing" THEN [l EXCEPT !.err = "FileNotFoundError"]
  ELSE IF f.kind = "invalid" THEN [l EXCEPT !.err = "JSONDecodeError"]
  ELSE IF f.kind = "array"
  THEN [l EXCEPT !.data = StoreEntries(@, f.out, 1), !.log = Append(@, f.out)]
  ELSE IF f.kind = "dict" THEN ReadDict(l, f.out)
  ELSE [l EXCEPT !.err = "TypeError"]

\* the entries of the arrays: two states of job 7.1, job 7.2, and entries
\* that lack an id
LoadEntries ==
  {StartedJob(7, 1, 2, 1), StartedJob(7, 1, 4, 1), StartedJob(7, 2, 2, 1),
   Without(StartedJob(7, 2, 2, 1), "ClusterId"), Without(StartedJob(7, 1, 2, 1), "ProcId")}

LoadArrays == ListsUpTo(LoadEntries, MaxEntries)

\* what a command may answer
Answers ==
  {[kind |-> "raise", out |-> <<>>], [kind |-> "invalid", out |-> <<"x", "x">>],
   [kind |-> "empty", out |-> <<>>]} \cup
  {[kind |-> "array", out |-> out] : out \in LoadArrays}

NoAnswer == [kind |-> "none", out |-> <<>>]

\* what the snapshot file may hold: an array, a mapping keyed as a live query
\* keys it or otherwise, a number
Snapshots ==
  {[kind |-> "missing", out |-> <<>>], [kind |-> "invalid", out |-> <<>>],
   [kind |-> "scalar", out |-> <<>>],
   [kind |-> "dict", out |-> <<Item(1, StartedJob(7, 1, 2, 1))>>],
   [kind |-> "dict", out |-> <<[id |-> <<"9", ".", "9">>, job |-> StartedJob(7, 1, 2, 1)]>>]} \cup
  {[kind |-> "array", out |-> out] : out \in LoadArrays}

\* the requests: the live queue, the queue and the history, the history alone
LoadRequests ==
  {[input |-> <<"s", ".", "j", "s", "o", "n">>] @@ a :
     a \in {PlainRequest, [PlainRequest EXCEPT !.hours = 1],
            [PlainRequest EXCEPT !.hours = 1, !.completed = TRUE],
            [PlainRequest EXCEPT !.hours = 1, !.completed = TRUE, !.plot = TRUE],
            [PlainRequest EXCEPT !.condor = << <<"7">>, <<"-", "8">> >>, !.held = TRUE]}}

LoadIdle ==
  /\ load_calls = 0
  /\ load_kind = ""
  /\ load_log = <<>>
  /\ load_err = ""
  /\ opened = <<>>

LoadSetup ==
  /\ condor_data = <<>>
  /\ args \in LoadRequests
  /\ files = <<>>
  /\ now = 8200
  /\ generators = <<>>
  /\ script_reads = 0
  /\ munge_calls = 0
  /\ munge_err = ""
  /\ munge_at = 0
  /\ munge_first = <<>>

\* the state a load starts from
Loading == [data |-> condor_data, commands |-> commands, printed |-> printed,
            log |-> load_log, err |-> ""]

\* the last statement of both: condor_munge(args), reached when nothing was
\* raised before
LoadMunged(l) ==
  IF l.err = "" THEN condor_munge(l.data, generators, script_reads, condor_data_tallies)
  ELSE [data |-> l.data, generators |-> generators, reads |-> script_reads,
        tallies |-> condor_data_tallies, err |-> munge_err, at |-> munge_at]

LoadReturn(kind, l, files_opened) ==
  /\ MungeReturn(LoadMunged(l))
  /\ munge_calls' = IF l.err = "" THEN munge_calls + 1 ELSE munge_calls
  /\ commands' = l.commands
  /\ printed' = l.printed
  /\ load_log' = l.log
  /\ load_err' = l.err
  /\ load_kind' = kind
  /\ load_calls' = load_calls + 1
  /\ opened' = opened \o files_opened
  /\ UNCHANGED <<args, files, now, tally_job, tally_err, ingested>>
  /\ UNCHANGED <<control, control_at, control_log, control_err>>
  /\ UNCHANGED <<matcherVars, summaryVars, yieldVars, probeVars>>

\* one call condor_query(args)
CondorQuery ==
  /\ load_calls = 0
  /\ \E q \in (IF RunsQ(args) THEN Answers ELSE {NoAnswer}),
        h \in (IF RunsHistory(args) THEN Answers ELSE {NoAnswer}) :
       LoadReturn("array", condor_query(Loading, args, q, h), <<>>)

\* one call condor_read(args)
CondorRead ==
  /\ load_calls = 0
  /\ \E f \in Snapshots :
       LoadReturn(IF f.kind = "dict" THEN "dict" ELSE "array", condor_read(Loading, f),
                  <<args.input>>)

----------------------------------------------------------------------------
(* The main program of condor-probe.py, from the parsed command line to the  *)
(* end of the load.  cli.error prints the usage with its message and ends    *)
(* the run with status 2.  The load issues its commands through              *)
(* subprocess.check_output and reads its snapshot through open, the same     *)
(* two doors as the job control; commands and opened are what went through.  *)

\* the default of -input
PyFalse == <<"FALSE">>

\* bool(v) of False or of a string
Truthy(v) == v # PyFalse /\ v # <<>>

BoolInt(b) == IF b THEN 1 ELSE 0

TooManyStates_Never(a) == FALSE

\* args.held + args.idle + args.running + args.completed > 1
TooManyStates(a) ==
  BoolInt(a.held) + BoolInt(a.idle) + BoolInt(a.running) + BoolInt(a.completed) > 1

\* more than one of -cvmfs/vacate/tail/json
TooManyModes(a) ==
  BoolInt(a.vacate >= 0) + BoolInt(a.tail # None) + BoolInt(a.cvmfs) + BoolInt(a.json) > 1

\* args.completed and args.hours <= 0 and not args.input
CompletedUnbounded(a) == a.completed /\ a.hours <= 0 /\ ~Truthy(a.input)

WrongHost(a) == hostname # <<"s", "c", "o", "s", "g", "1", "6", ".", "j", "l", "a", "b", ".", "o", "r", "g">> /\ ~Truthy(a.input)

WrongUser(a) == a.clas12mon /\ username # <<"g", "e", "m", "c">>

\* one check of the main program: cli.error(message) or on to the next
Check(at, failed, message, next) ==
  /\ pc = at
  /\ pc' = IF failed THEN "exit" ELSE next
  /\ exit_status' = IF failed THEN 2 ELSE exit_status
  /\ usage' = IF failed THEN message ELSE usage
  /\ UNCHANGED <<cli_args, hostname, username>>
  /\ UNCHANGED <<matcherVars, tallyVars, mungeVars, summaryVars, yieldVars, controlVars, loadVars>>

CheckStates ==
  Check("states", TooManyStates(cli_args),
        "Only one of -held/idle/running/completed is allowed.", "modes")

CheckModes ==
  Check("modes", TooManyModes(cli_args), "Only one of -cvmfs/vacate/tail/json is allowed.",
        "completed")

CheckCompleted ==
  Check("completed", CompletedUnbounded(cli_args),
        "-completed requires -hours is greater than zero or -input.", "host")

CheckHost ==
  Check("host", WrongHost(cli_args), "You must be on scosg16 unless using the -input option.",
        "user")

CheckUser ==
  Check("user", WrongUser(cli_args), "Only user=gemc can use -clas12mon.", "load")

\* condor_add_json of condor-probe.py as far as the run goes on or ends: the
\* command is run, and a command that fails or prints no JSON ends the run
ProbeAddJson(l, cmd, r) ==
  IF l.err # "" THEN l
  ELSE IF r = "raise" THEN [l EXCEPT !.commands = Append(@, cmd), !.err = "SystemExit"]
  ELSE [l EXCEPT !.commands = Append(@, cmd)]

\* condor_query of condor-probe.py up to its condor_munge call
ProbeQuery(l, a, q, h) ==
  LET opts == QueryOpts(a)
      afterq == IF ~a.completed
                THEN ProbeAddJson(l, <<<<"c", "o", "n", "d", "o", "r", "_", "q">>, <<"g", "e", "m", "c">>>> \o a.condor \o opts \o
                                     <<<<"-", "n", "o", "b", "a", "t", "c", "h">>, <<"-", "j", "s", "o", "n">>>>, q)
                ELSE l
  IN  IF a.hours > 0
      THEN ProbeAddJson(afterq, <<<<"c", "o", "n", "d", "o", "r", "_", "h", "i", "s", "t", "o", "r", "y">>, <<"g", "e", "m", "c">>>> \o a.condor \o opts \o
                                <<<<"-", "j", "s", "o", "n">>, <<"-", "s", "i", "n", "c", "e">>,
                                  <<"C", "o", "m", "p", "l", "e", "t", "i", "o", "n", "D", "a", "t", "e", "!", "=", "0", "&", "&", "C", "o", "m", "p", "l", "e", "t", "i", "o", "n", "D", "a", "t", "e", "<">> \o IntToStr(now - 3600 * a.hours)>>, h)
      ELSE afterq

\* condor_read of condor-probe.py up to its condor_munge call
ProbeRead(l, a, f) ==
  [l EXCEPT !.opened = Append(@, a.input),
            !.err = IF f = "raise" THEN "FileNotFoundError" ELSE ""]

\* lines 608-621: the load, which ends the run when a command fails
ProbeLoad ==
  /\ pc = "load"
  /\ \E q, h \in {"raise", "json"} :
       LET l == IF Truthy(cli_args.input)
                THEN ProbeRead([commands |-> commands, opened |-> opened, err |-> ""],
                               cli_args, q)
                ELSE ProbeQuery([commands |-> commands, opened |-> opened, err |-> ""],
                                cli_args, q, h)
       IN  /\ commands' = l.commands
           /\ opened' = l.opened
           /\ load_err' = l.err
           /\ pc' = IF l.err = "" THEN "loaded" ELSE "exit"
           /\ exit_status' = IF l.err = "" THEN exit_status ELSE 1
  /\ UNCHANGED <<cli_args, hostname, username, usage>>
  /\ UNCHANGED <<control, control_at, printed, control_log, control_err>>
  /\ UNCHANGED <<load_calls, load_kind, load_log>>
  /\ UNCHANGED <<matcherVars, tallyVars, mungeVars, summaryVars, yieldVars>>

\* the command lines argparse accepts
CommandLines ==
  [held : BOOLEAN, idle : BOOLEAN, running : BOOLEAN, completed : BOOLEAN,
   hours : {0, 1}, input : {PyFalse, <<>>, <<"s", ".", "j", "s", "o", "n">>},
   vacate : {-1, 2}, tail : {None}, cvmfs : {FALSE}, json : BOOLEAN,
   clas12mon : BOOLEAN, condor : {<<>>}]

ProbeIdle ==
  /\ cli_args = [held |-> FALSE]
  /\ hostname = <<>>
  /\ username = <<>>
  /\ pc = ""
  /\ exit_status = -1
  /\ usage = ""

\* the record map is empty and the clock shows a time of day
ProbeMunge ==
  /\ condor_data = <<>>
  /\ args = [parseexit |-> FALSE]
  /\ files = <<>>
  /\ now = 8200
  /\ generators = <<>>
  /\ script_reads = 0
  /\ munge_calls = 0
  /\ munge_err = ""
  /\ munge_at = 0
  /\ munge_first = <<>>

ProbeSetup ==
  /\ cli_args \in CommandLines
  /\ hostname \in {<<"s", "c", "o", "s", "g", "1", "6", ".", "j", "l", "a", "b", ".", "o", "r", "g">>, <<"i", "f", "a", "r", "m">>}
  /\ username \in {<<"g", "e", "m", "c">>, <<"m", "e">>}
  /\ pc = "states"
  /\ exit_status = -1
  /\ usage = ""

----------------------------------------------------------------------------
(* Specifications *)

\* a Matcher built from any criteria list, then queried
InitMatcher == MatcherSetup /\ TallyIdle /\ MungeIdle /\ SummaryIdle /\ YieldIdle /\ ControlIdle /\ LoadIdle /\ ProbeIdle
NextMatcher == MatcherMatches \/ MatcherPatternMatches
SpecMatcher == InitMatcher /\ [][NextMatcher]_vars

\* the global tally fed any sequence of records
InitTally == MatcherIdle /\ TallyIdle /\ MungeIdle /\ SummaryIdle /\ YieldIdle /\ ControlIdle /\ LoadIdle /\ ProbeIdle
NextTally == CondorTally
SpecTally == InitTally /\ [][NextTally]_vars

\* the records are ingested, then the efficiency summary is asked for
InitEfficiency == MatcherIdle /\ TallyIdle /\ MungeIdle /\ SummaryIdle /\ YieldIdle /\ ControlIdle /\ LoadIdle /\ ProbeIdle
NextEfficiency == Ingest \/ EfficiencySummary
SpecEfficiency == InitEfficiency /\ [][NextEfficiency]_vars

\* condor_munge run, up to MaxMunge times, on any record map
InitMunge == MatcherIdle /\ TallyIdle /\ MungeSetup /\ SummaryIdle /\ YieldIdle /\ ControlIdle /\ LoadIdle /\ ProbeIdle
NextMunge == CondorMunge
SpecMunge == InitMunge /\ [][NextMunge]_vars

\* a record map is loaded and normalised, then summarised any number of times
InitSummary == MatcherIdle /\ TallyIdle /\ SummarySetup /\ SummaryIdle /\ YieldIdle /\ ControlIdle /\ LoadIdle /\ ProbeIdle
NextSummary == LoadMunge \/ ClusterSummary \/ SiteSummary \/ ExitCodeSummary \/ YieldFirst
SpecSummary == InitSummary /\ [][NextSummary]_vars

\* a record map is normalised and then filtered by any request
InitYield == MatcherIdle /\ TallyIdle /\ YieldSetup /\ SummaryIdle /\ YieldIdle /\ ControlIdle /\ LoadIdle /\ ProbeIdle
NextYield == LoadMunge \/ CondorYield \/ CondorYieldAgain
SpecYield == InitYield /\ [][NextYield]_vars

\* a record map is normalised and filtered, then the batch loop vacates or
\* holds the yielded jobs one after the other
InitControl == MatcherIdle /\ TallyIdle /\ ControlSetup /\ SummaryIdle /\ YieldIdle /\ LoadIdle /\ ProbeIdle
NextControl == LoadMunge \/ CondorYield \/ VacateNext \/ HoldNext
SpecControl == InitControl /\ [][NextControl]_vars

\* one load into the empty record map: a live query or a snapshot
InitLoad == MatcherIdle /\ TallyIdle /\ LoadSetup /\ SummaryIdle /\ YieldIdle /\ ControlIdle /\ LoadIdle /\ ProbeIdle
NextLoad == CondorQuery \/ CondorRead
SpecLoad == InitLoad /\ [][NextLoad]_vars

\* one run of condor-probe.py on any command line, host and user
InitProbe == MatcherIdle /\ TallyIdle /\ ProbeMunge /\ SummaryIdle /\ YieldIdle /\ ControlIdle /\ LoadIdle /\ ProbeSetup
NextProbe == CheckStates \/ CheckModes \/ CheckCompleted \/ CheckHost \/ CheckUser \/ ProbeLoad
SpecProbe == InitProbe /\ [][NextProbe]_vars

\* the main program runs on from one statement to the next
FairProbe == SpecProbe /\ WF_vars(NextProbe)

----------------------------------------------------------------------------
(* Claims about the Matcher *)

\* the positive criteria and the vetoes of a criteria list, read off the list
PositiveOf(L) == {L[i] : i \in {j \in 1..Len(L) : L[j] = <<>> \/ L[j][1] # "-"}}
VetoOf(L) == {Tail(L[i]) : i \in {j \in 1..Len(L) : L[j] # <<>> /\ L[j][1] = "-"}}

IsSubstring(x, s) ==
  \E i \in 1..(Len(s) + 1) : i + Len(x) - 1 <= Len(s) /\ SubSeq(s, i, i + Len(x) - 1) = x

\* C1: matches(v) is true exactly when (there is no positive criterion or
\* str(v) is one of them) and str(v) is none of the vetoes.
C1_MatchesContract ==
  m_call = "matches" =>
    m_ret = ( /\ (PositiveOf(m_criteria) = {} \/ Str(m_arg) \in PositiveOf(m_criteria))
              /\ Str(m_arg) \notin VetoOf(m_criteria) )

\* a value that is both a positive criterion and vetoed has been rejected
C1_Witness ==
  /\ m_call = "matches"
  /\ Str(m_arg) \in PositiveOf(m_criteria)
  /\ Str(m_arg) \in VetoOf(m_criteria)
  /\ m_ret = FALSE

\* C2: without vetoes, pattern_matches(v) is true exactly when every positive
\* criterion is a substring of str(v).
C2_PatternAllPositives ==
  (m_call = "pattern_matches" /\ VetoOf(m_criteria) = {}) =>
    m_ret = (\A p \in PositiveOf(m_criteria) : IsSubstring(p, Str(m_arg)))

\* C3: pattern_matches(v) is false whenever some veto is a substring of str(v).
C3_PatternVeto ==
  (m_call = "pattern_matches" /\ \E a \in VetoOf(m_criteria) : IsSubstring(a, Str(m_arg))) =>
    m_ret = FALSE

----------------------------------------------------------------------------
(* Claims about condor_tally *)

StateOf(job) == job_states[job.JobStatus]

\* what the claim says a record adds to each total
GoodAttemptsOf(job) == IF StateOf(job) = "C" THEN 1 ELSE 0
GoodWallOf(job) == IF StateOf(job) = "C" THEN WallSeconds(job.wallhr) ELSE DInt(0)
GoodCpuOf(job) == IF StateOf(job) = "C" THEN job.RemoteUserCpu ELSE 0
BadAttemptsOf(job) ==
  IF StateOf(job) \in {"C", "R"}
  THEN (IF job.NumJobStarts > 1 THEN job.NumJobStarts - 1 ELSE 0)
  ELSE (IF StateOf(job) # "X" /\ job.NumJobStarts > 0 THEN job.NumJobStarts ELSE 0)
BadWallOf(job) ==
  IF StateOf(job) \in {"C", "R"}
  THEN (IF job.NumJobStarts > 1
        THEN DSub(DInt(job.CumulativeSlotTime), WallSeconds(job.wallhr)) ELSE DInt(0))
  ELSE (IF StateOf(job) # "X" /\ job.NumJobStarts > 0
        THEN DInt(job.CumulativeSlotTime) ELSE DInt(0))
BadCpuOf(job) ==
  IF StateOf(job) \in {"C", "R"}
  THEN (IF job.NumJobStarts > 1
        THEN job.CumulativeRemoteUserCpu - job.RemoteUserCpu ELSE 0)
  ELSE (IF StateOf(job) # "X" /\ job.NumJobStarts > 0
        THEN job.CumulativeRemoteUserCpu ELSE 0)

C6_Step ==
  tally_err' = "" =>
    LET job == tally_job'
        x == condor_data_tallies
        y == condor_data_tallies'
    IN  /\ y.goodattempts = x.goodattempts + GoodAttemptsOf(job)
        /\ y.goodwall = DAdd(x.goodwall, GoodWallOf(job))
        /\ y.goodcpu = x.goodcpu + GoodCpuOf(job)
        /\ y.badattempts = x.badattempts + BadAttemptsOf(job)
        /\ y.badwall = DAdd(x.badwall, BadWallOf(job))
        /\ y.badcpu = x.badcpu + BadCpuOf(job)

\* the scenario of the claim: one Completed record (1 attempt, 1.00 wall
\* hours, 1800 cpu seconds) and one Held record (2 attempts, 7200 s of slot
\* time, 3600 s of cumulative cpu)
C6_ScenarioIngested ==
  /\ tally_err = ""
  /\ \A i \in DOMAIN TallyJobSeq :
       ingested[i] = IF TallyJobSeq[i] \in {TallyJob(4, 1, Fmt2(100)), TallyJob(5, 2, None)}
                     THEN 1 ELSE 0

C6_ScenarioTotals ==
  /\ condor_data_tallies.goodwall = DInt(3600)
  /\ condor_data_tallies.goodcpu = 1800
  /\ condor_data_tallies.badwall = DInt(7200)
  /\ condor_data_tallies.badcpu = 3600
  /\ condor_data_tallies.totalwall = DInt(10800)
  /\ condor_data_tallies.totalcpu = 5400

\* C6: every condor_tally call that returns adds to the good and bad totals
\* what the state of its record prescribes (Completed: one good attempt, the
\* final instance's wall seconds and cpu; Completed or Running with more than
\* one start: the excess attempts, slot time and cpu; any state but Completed,
\* Running and Removed with a start: the whole cumulative slot time and cpu;
\* Removed: nothing), and the scenario of the claim gives the stated totals.
C6_TallyUpdate ==
  /\ [][C6_Step]_vars
  /\ [](C6_ScenarioIngested => C6_ScenarioTotals)

C6_Witness == C6_ScenarioIngested /\ C6_ScenarioTotals /\ StateOf(tally_job) = "H"

\* C7: after every condor_tally call that returned, totalwall is goodwall +
\* badwall and totalcpu is goodcpu + badcpu.
C7_TotalsAreSums ==
  (tally_job # NoJob /\ tally_err = "") =>
    /\ Has(condor_data_tallies, "totalwall") /\ Has(condor_data_tallies, "totalcpu")
    /\ condor_data_tallies.totalwall =
         DAdd(condor_data_tallies.goodwall, condor_data_tallies.badwall)
    /\ condor_data_tallies.totalcpu =
         condor_data_tallies.goodcpu + condor_data_tallies.badcpu

C7_Witness ==
  /\ tally_err = ""
  /\ TallyCalls >= 2
  /\ DLess(DInt(0), condor_data_tallies.goodwall)
  /\ DLess(DInt(0), condor_data_tallies.badwall)
  /\ condor_data_tallies.totalwall =
       DAdd(condor_data_tallies.goodwall, condor_data_tallies.badwall)

\* condor_tally applied k times to the same record
RECURSIVE TallyRepeat(_, _, _)
TallyRepeat(x, job, k) ==
  IF k = 0 THEN x ELSE TallyRepeat(condor_tally(x, job).x, job, k - 1)

\* the records ingested so far, fed to condor_tally in the order of
\* TallyJobSeq, starting at its i-th record
RECURSIVE FoldInListOrder(_, _)
FoldInListOrder(x, i) ==
  IF i > Len(TallyJobSeq) THEN x
  ELSE FoldInListOrder(TallyRepeat(x, TallyJobSeq[i], ingested[i]), i + 1)

Count(alist, v) == Cardinality({i \in DOMAIN alist : alist[i] = v})

SameTotals(x, y) ==
  /\ \A k \in {"goodwall", "badwall", "goodcpu", "badcpu", "goodattempts",
               "badattempts", "totalwall", "totalcpu"} :
       Get(x, k) = Get(y, k)
  /\ \A v \in 0..2 : Count(x.attempts, v) = Count(y.attempts, v)

\* C8: the tally depends on the multiset of ingested records only: whatever
\* the order of the calls was, the totals are those of ingesting the same
\* records in one fixed order.
C8_OrderIndependent ==
  tally_err = "" =>
    SameTotals(condor_data_tallies, FoldInListOrder(TalliesInit, 1))

----------------------------------------------------------------------------
(* Claims about condor_munge *)

\* the records the last call has worked on: all of them, or those up to the
\* one at which it raised
Munged == IF munge_err = "" THEN DOMAIN condor_data ELSE 1..munge_at

\* the log path of record i matches config.log_regex
LogMatches(i) ==
  /\ Has(condor_data[i].job, "UserLog")
  /\ LogSearch(condor_data[i].job.UserLog) # None

\* the id '<cluster>.<proc>' its log path spells
LogId(i) ==
  LogSearch(condor_data[i].job.UserLog)[3] \o <<".">> \o
  LogSearch(condor_data[i].job.UserLog)[4]

\* the first half of C4 alone: an id parsed from the path that differs from
\* the key of the record ends the call with an error raised at that record,
\* and the ValueError of the id check is raised at no record whose id agrees
IdCheckRaisesOnMismatchOnly ==
  munge_calls > 0 =>
    \A i \in Munged :
      LogMatches(i) =>
        IF LogId(i) # condor_data[i].id
        THEN munge_err # "" /\ munge_at = i
        ELSE ~(munge_err = "ValueError" /\ munge_at = i)

\* C4: for every record that condor_munge works on and whose log path matches
\* the pattern, an id parsed from the path that differs from the key of the
\* record ends the call with an error raised at that record, and with an id
\* equal to the key no error is raised for that record.
C4_IdMismatchFatal ==
  munge_calls > 0 =>
    \A i \in Munged :
      LogMatches(i) =>
        IF LogId(i) # condor_data[i].id
        THEN munge_err # "" /\ munge_at = i
        ELSE ~(munge_err # "" /\ munge_at = i)

\* the first record passed the id check and was normalised, the second one,
\* whose path spells another id, ended the call with the ValueError
IdMismatchReached ==
  /\ munge_calls = 1
  /\ Len(condor_data) >= 2
  /\ LogMatches(1) /\ LogId(1) = condor_data[1].id
  /\ LogMatches(2) /\ LogId(2) # condor_data[2].id
  /\ munge_err = "ValueError"
  /\ munge_at = 2

\* the records the last call has normalised: all of them, or those before the
\* one at which it raised
Normalized == IF munge_err = "" THEN DOMAIN condor_data ELSE 1..(munge_at - 1)

\* wallhr of the job is a positive number of hours
WallhrPositive(job) == job.wallhr # None /\ job.wallhr[2] > 0

\* h hundredths is cpu / (wallhr * 3600) to the nearest hundredth, wallhr
\* given in hundredths of an hour
NearestEff(h, cpu, wallhr) ==
  2 * (IF 100 * 100 * cpu >= h * wallhr * 3600 THEN 100 * 100 * cpu - h * wallhr * 3600
       ELSE h * wallhr * 3600 - 100 * 100 * cpu) <= wallhr * 3600

\* C11: every normalised record has an eff exactly when it is Completed with
\* positive wall hours, and that eff is RemoteUserCpu / (wallhr * 3600) to two
\* decimals; wall hours 2.00 and RemoteUserCpu 3600 give 0.50.
C11_EffWhenCompleted ==
  munge_calls > 0 =>
    \A i \in Normalized :
      LET job == condor_data[i].job IN
        /\ job.eff # None <=> (job_states[job.JobStatus] = "C" /\ WallhrPositive(job))
        /\ job.eff # None =>
             /\ job.eff[1] = "%.2f"
             /\ NearestEff(job.eff[2], job.RemoteUserCpu, job.wallhr[2])
        /\ (job_states[job.JobStatus] = "C" /\ job.wallhr = Fmt2(200)
              /\ job.RemoteUserCpu = 3600) => job.eff = Fmt2(50)

\* a call has normalised a Completed record of two wall hours and 3600 cpu
\* seconds, whose eff is 0.50, next to a Held record that ran and has no eff
C11_Witness ==
  /\ munge_calls = 1
  /\ munge_err = ""
  /\ \E i \in DOMAIN condor_data :
       /\ job_states[condor_data[i].job.JobStatus] = "C"
       /\ condor_data[i].job.wallhr = Fmt2(200)
       /\ condor_data[i].job.RemoteUserCpu = 3600
       /\ condor_data[i].job.eff = Fmt2(50)
  /\ \E i \in DOMAIN condor_data :
       /\ job_states[condor_data[i].job.JobStatus] = "H"
       /\ condor_data[i].job.NumJobStarts > 0
       /\ condor_data[i].job.eff = None

\* the cluster ids of the records condor_munge has worked on
MungedClusters == {condor_data[i].job.ClusterId : i \in Munged}

\* C12: over the get_generator calls of the condor_munge calls made so far, no
\* script was read more than once for one cluster id: the number of script
\* files opened is at most the number of cluster ids seen.
C12_ScriptReadOncePerCluster ==
  script_reads <= Cardinality(MungedClusters)

\* the job has a start timestamp greater than zero
HasStarted(job) == Has(job, "JobCurrentStartDate") /\ job.JobCurrentStartDate > 0

\* the job has a completion timestamp greater than zero
HasEnded(job) ==
  /\ IsPyInt(Get(job, "CompletionDate"))
  /\ job.CompletionDate[2] > 0

\* h hundredths of an hour is the span of secs seconds to the nearest hundredth
NearestHours(h, secs) ==
  2 * (IF 100 * secs >= h * 3600 THEN 100 * secs - h * 3600 ELSE h * 3600 - 100 * secs) <= 3600

\* C14: every normalised record has a wallhr exactly when it is Completed or
\* Running and has a start timestamp greater than zero, and that wallhr is the
\* hours from the start to the CompletionDate when that is present and greater
\* than zero, to the current time otherwise.
C14_WallhrWhenStarted ==
  munge_calls > 0 =>
    \A i \in Normalized :
      LET job == condor_data[i].job IN
        /\ job.wallhr # None <=>
             (job_states[job.JobStatus] \in {"C", "R"} /\ HasStarted(job))
        /\ job.wallhr # None =>
             /\ job.wallhr[1] = "%.2f"
             /\ NearestHours(job.wallhr[2],
                              (IF HasEnded(job) THEN job.CompletionDate[2] ELSE now)
                                - job.JobCurrentStartDate)

\* a call has normalised a Running record, whose hours run to the clock, next
\* to a Completed one, whose hours run to its CompletionDate
C14_Witness ==
  /\ munge_calls = 1
  /\ munge_err = ""
  /\ \E i \in DOMAIN condor_data :
       /\ job_states[condor_data[i].job.JobStatus] = "R"
       /\ ~HasEnded(condor_data[i].job)
       /\ condor_data[i].job.wallhr = Fmt2(200)
  /\ \E i \in DOMAIN condor_data :
       /\ job_states[condor_data[i].job.JobStatus] = "C"
       /\ condor_data[i].job.CompletionDate = PyInt(4600)
       /\ condor_data[i].job.wallhr = Fmt2(100)

\* every log path of the map that matches the pattern spells the key of its
\* record
IdsAgree ==
  \A i \in DOMAIN condor_data : LogMatches(i) => LogId(i) = condor_data[i].id

\* the fields of the records that are not numbers are as the scheduler sends
\* them: the arguments are there and no timestamp is a string
TextFieldsSound ==
  \A i \in DOMAIN condor_data :
    /\ Has(condor_data[i].job, "Args")
    /\ Get(condor_data[i].job, "CompletionDate") \in {None} \/
         IsPyInt(Get(condor_data[i].job, "CompletionDate"))

\* C15: on a record map whose log-derived ids agree with the keys,
\* condor_munge returns without raising, whichever numeric fields of the
\* records are missing or null.
C15_DerivationNeverAborts ==
  (munge_calls > 0 /\ IdsAgree /\ TextFieldsSound) => munge_err = ""

DerivedFields ==
  {"user", "gemc", "condor", "condorid", "gemcjob", "stderr", "stdout", "host",
   "LastRemoteHost", "wallhr", "eff", "ceff", "generator", "ExitCode"}

\* C10: after a second condor_munge over the record map, with the clock and
\* the files unchanged, every derived field of every record has the value the
\* first call left.
C10_MungeIdempotent ==
  munge_calls >= 2 =>
    /\ Len(condor_data) = Len(munge_first)
    /\ \A i \in DOMAIN condor_data :
         /\ condor_data[i].id = munge_first[i].id
         /\ DOMAIN condor_data[i].job = DOMAIN munge_first[i].job
         /\ \A k \in DerivedFields :
              Get(condor_data[i].job, k) = Get(munge_first[i].job, k)

\* a second call has completed on a map with a Held record whose exit code
\* was parsed from its log, whose host was trimmed and whose generator was
\* read from the script
C10_Witness ==
  /\ munge_calls = 2
  /\ munge_err = ""
  /\ \E i \in DOMAIN condor_data :
       /\ job_states[condor_data[i].job.JobStatus] = "H"
       /\ Get(condor_data[i].job, "ExitCode") = PyInt(203)
       /\ Get(condor_data[i].job, "LastRemoteHost") = <<"n">>
       /\ condor_data[i].job.generator = <<"d", "i", "s">>
       /\ condor_data[i].job.ceff = PyInt(0)
  /\ \E i \in DOMAIN condor_data :
       /\ condor_data[i].job.eff = Fmt2(50)
       /\ condor_data[i].job.wallhr = Fmt2(100)

----------------------------------------------------------------------------
(* Claims about the summaries *)

\* the records the last summary folded
Admitted == condor_yield(matchers, condor_data, args)

\* C5: in every group of the result of condor_cluster_summary, done + held +
\* idle + run is the TotalSubmitProcs of the group, and done is that
\* difference, whatever the number of Completed records folded.
C5_ClusterDoneDerived ==
  (summary_call = "cluster" /\ summary_err = "") =>
    \A g \in DOMAIN summary_ret :
      summary_ret[g].v.done + summary_ret[g].v.held + summary_ret[g].v.idle +
        summary_ret[g].v.run = summary_ret[g].v.TotalSubmitProcs

\* a group of two folded records, one Running and one Held, neither
\* Completed: done is 1 of the 3 submitted
C5_Witness ==
  /\ summary_call = "cluster"
  /\ summary_err = ""
  /\ \E g \in DOMAIN summary_ret :
       /\ summary_ret[g].v.run = 1
       /\ summary_ret[g].v.held = 1
       /\ summary_ret[g].v.done = 1
       /\ summary_ret[g].v.TotalSubmitProcs = 3
       /\ Len(SelectSeq(Admitted, LAMBDA item :
                BeforeFirst(item.id, <<".">>) = summary_ret[g].key)) = 2

\* the place of the first admitted record of a site
FirstSeen(site) ==
  CHOOSE i \in DOMAIN Admitted :
    /\ Get(Admitted[i].job, "MATCH_GLIDEIN_Site") = site
    /\ \A j \in 1..(i - 1) : Get(Admitted[j].job, "MATCH_GLIDEIN_Site") # site

AdmittedSites == {Get(Admitted[i].job, "MATCH_GLIDEIN_Site") : i \in DOMAIN Admitted}

SiteOrder == [g \in DOMAIN summary_ret |-> summary_ret[g].key]

\* C9: condor_site_summary returns the groups it built, one per site of the
\* admitted records, by total descending, groups of equal total in the order
\* their sites were first seen; totals 5, 9, 3 come out as 9, 5, 3.
C9_SiteOrder ==
  (summary_call = "site" /\ summary_err = "") =>
    /\ \A g, h \in DOMAIN summary_ret :
         g < h =>
           /\ summary_ret[g].v.total >= summary_ret[h].v.total
           /\ summary_ret[g].v.total = summary_ret[h].v.total =>
                FirstSeen(summary_ret[g].key) < FirstSeen(summary_ret[h].key)
    /\ Len(summary_ret) = Len(summary_sites)
    /\ \A g \in DOMAIN summary_sites :
         \E h \in DOMAIN summary_ret :
           /\ summary_ret[h].key = summary_sites[g].key
           /\ summary_ret[h].v = summary_sites[g].v
    /\ {summary_ret[g].key : g \in DOMAIN summary_ret} = AdmittedSites
    /\ (condor_data = munge_first /\ Len(condor_data) = 17 /\ Len(Admitted) = 17) =>
         SiteOrder = << <<"B">>, <<"A">>, <<"C">> >>

\* three groups came back with two of equal total behind a larger one that
\* was seen after the first of them
C9_Witness ==
  /\ summary_call = "site"
  /\ summary_err = ""
  /\ Len(summary_ret) = 3
  /\ summary_ret[1].v.total > summary_ret[2].v.total
  /\ summary_ret[2].v.total = summary_ret[3].v.total
  /\ FirstSeen(summary_ret[2].key) < FirstSeen(summary_ret[1].key)

----------------------------------------------------------------------------
(* Claims about condor_match *)

\* the keys of the records the run through condor_yield has admitted
AdmittedIds == {yield_ret[i].id : i \in DOMAIN yield_ret}

\* the run has ended without an exception
Yielded == yield_calls > 0 /\ yield_err = ""

\* no state filter is requested
NoStateFilter == ~args.idle /\ ~args.completed /\ ~args.running /\ ~args.held

\* nothing but the cluster-id criterion can reject a record of the map
OnlyClusterCriterion ==
  /\ NoStateFilter
  /\ \A i \in DOMAIN condor_data : MatchEnd(condor_data[i].job, args)

\* C13: with the one criterion '7.1' and no other filter, record 7.1 is
\* admitted and record 7.2 is not; with the one criterion '7', every record of
\* cluster 7 is admitted.
C13_FullOrBareClusterId ==
  (Yielded /\ OnlyClusterCriterion) =>
    /\ args.condor = << <<"7", ".", "1">> >> =>
         \A i \in DOMAIN condor_data :
           condor_data[i].id \in AdmittedIds <=> condor_data[i].id = <<"7", ".", "1">>
    /\ args.condor = << <<"7">> >> =>
         \A i \in DOMAIN condor_data :
           condor_data[i].job.ClusterId = 7 => condor_data[i].id \in AdmittedIds

\* the half of C13 about the bare cluster id, and what the criterion '7.1'
\* does in its place: it admits no record at all
BareClusterIdOnly ==
  (Yielded /\ OnlyClusterCriterion) =>
    /\ args.condor = << <<"7", ".", "1">> >> => AdmittedIds = {}
    /\ args.condor = << <<"7">> >> =>
         \A i \in DOMAIN condor_data :
           condor_data[i].job.ClusterId = 7 => condor_data[i].id \in AdmittedIds
    /\ args.condor = << <<"8">> >> =>
         \A i \in DOMAIN condor_data :
           condor_data[i].job.ClusterId = 7 => condor_data[i].id \notin AdmittedIds

\* the states whose filter is requested
RequestedStates ==
  (IF args.idle THEN {"I"} ELSE {}) \cup (IF args.completed THEN {"C"} ELSE {}) \cup
  (IF args.running THEN {"R"} ELSE {}) \cup (IF args.held THEN {"H"} ELSE {})

\* every admitted record is in the one requested state
OnlyRequestedState ==
  Cardinality(RequestedStates) = 1 =>
    \A i \in DOMAIN yield_ret : job_states[yield_ret[i].job.JobStatus] \in RequestedStates

\* whether a record of the map is admitted does not depend on its status
StatusIsNoReason ==
  \A i \in DOMAIN condor_data :
    \A status \in DOMAIN job_states :
      condor_match(matchers, [condor_data[i].job EXCEPT !.JobStatus = status], args)
        <=> condor_data[i].id \in AdmittedIds

\* C16: with exactly one state filter requested every admitted record is in
\* that state, whatever else the request asks for; with none requested the
\* status of a record is no reason to reject it.
C16_SingleStateFilter ==
  Yielded =>
    /\ OnlyRequestedState
    /\ NoStateFilter => StatusIsNoReason

\* C16 as the code has it: the state filters are applied when no plot is
\* requested; a request for a plot switches them off
C16_SingleStateFilterUnlessPlot ==
  Yielded =>
    /\ ~args.plot => OnlyRequestedState
    /\ (NoStateFilter \/ args.plot) => StatusIsNoReason

\* the held filter alone, no plot: the Held record of the map was admitted
\* and the Completed one was not
C16_Witness ==
  /\ Yielded
  /\ ~args.plot
  /\ RequestedStates = {"H"}
  /\ \E i \in DOMAIN condor_data :
       /\ job_states[condor_data[i].job.JobStatus] = "H"
       /\ condor_data[i].id \in AdmittedIds
  /\ \E i \in DOMAIN condor_data :
       /\ job_states[condor_data[i].job.JobStatus] = "C"
       /\ condor_data[i].id \notin AdmittedIds

\* the CompletionDate of the job is absent, null or no integer
NoCompletionTime(job) ==
  \/ ~Has(job, "CompletionDate")
  \/ job.CompletionDate = None
  \/ ~IsPyInt(job.CompletionDate) /\ ~IsIntLiteral(job.CompletionDate)

\* C17: a record whose CompletionDate is an integer greater than the end of
\* the request is not admitted; a record whose CompletionDate is absent, null
\* or no integer is admitted exactly when it would be with a CompletionDate
\* that is not after the end.
C17_CompletionCeiling ==
  Yielded =>
    \A i \in DOMAIN condor_data :
      LET job == condor_data[i].job IN
        /\ (IsPyInt(Get(job, "CompletionDate")) /\ job.CompletionDate[2] > args.end)
             => condor_data[i].id \notin AdmittedIds
        /\ NoCompletionTime(job) =>
             (condor_data[i].id \in AdmittedIds
                <=> condor_match(matchers, SetItem(job, "CompletionDate", PyInt(0)), args))

\* with no other filter, the record completed after the end of the request
\* was rejected and the one with no usable CompletionDate was admitted
C17_Witness ==
  /\ Yielded
  /\ NoStateFilter
  /\ args.condor = <<>>
  /\ \E i \in DOMAIN condor_data :
       /\ Get(condor_data[i].job, "CompletionDate") = PyInt(4600)
       /\ args.end = 4599
       /\ condor_data[i].id \notin AdmittedIds
  /\ \E i \in DOMAIN condor_data :
       /\ NoCompletionTime(condor_data[i].job)
       /\ condor_data[i].id \in AdmittedIds

----------------------------------------------------------------------------
(* Claims about job control *)

\* the command of that call failed: it raised (its output could not be read
\* counts as raised), or, for vacate, its output less the trailing white space
\* is not the text 'Job <id> fast-vacated'
CommandFailed(e) ==
  \/ e.o.kind # "bytes"
  \/ /\ e.mode = "vacate"
     /\ RStrip(e.o.out) # <<"J", "o", "b", " ">> \o e.id \o <<" ", "f", "a", "s", "t", "-", "v", "a", "c", "a", "t", "e", "d">>

\* the call printed the diagnostic of its command
Diagnosed(e) ==
  \E i \in DOMAIN e.printed : StartsWith(e.printed[i], <<"E", "R", "R", "O", "R", " ", "r", "u", "n", "n", "i", "n", "g", " ", "c", "o", "m", "m", "a", "n", "d", " ">>)

\* the jobs the loop had a command to issue for
Controlled(item) == control.mode = "hold" \/ VacateWanted(item.job, control)

\* no call let an exception out or issued its command more than once, and the
\* loop has issued one command for each job it had one for, in their order
BatchNeverAborts ==
  /\ control_err = ""
  /\ \A k \in DOMAIN control_log : control_log[k].err = "" /\ Len(control_log[k].commands) = 1
  /\ Len(commands) = Len(control_log)
  /\ [k \in DOMAIN control_log |-> control_log[k].id] =
       [k \in DOMAIN SelectSeq(SubSeq(yield_ret, 1, control_at), Controlled) |->
          SelectSeq(SubSeq(yield_ret, 1, control_at), Controlled)[k].id]

\* C18: when a hold or vacate command fails (it raises, or the output of vacate
\* is not exactly the confirmation 'Job <id> fast-vacated'), the call reports
\* a diagnostic and returns normally: no exception propagates, the command is
\* not retried, and the batch goes on to the remaining admitted jobs
C18_FailureDiagnosedBatchGoesOn ==
  /\ BatchNeverAborts
  /\ \A k \in DOMAIN control_log : CommandFailed(control_log[k]) => Diagnosed(control_log[k])

\* a failed command, diagnosed, and a later job of the batch controlled after it
FailureThenNextJob ==
  \E k \in DOMAIN control_log :
    /\ k < Len(control_log)
    /\ CommandFailed(control_log[k])
    /\ Diagnosed(control_log[k])

----------------------------------------------------------------------------
(* Claims about loading *)

\* the entries of the arrays gone through, in the order they were met
RECURSIVE Flatten(_)
Flatten(arrays) == IF arrays = <<>> THEN <<>> ELSE arrays[1] \o Flatten(Tail(arrays))

LoadedEntries == Flatten(load_log)

\* '<ClusterId>.<ProcId>' of an entry or record that carries both
IdText(x) == IntToStr(x.ClusterId) \o <<".">> \o IntToStr(x.ProcId)

BothIds(x) == "ClusterId" \in DOMAIN x /\ "ProcId" \in DOMAIN x

\* the place in LoadedEntries of the last entry that was stored under key
LastLoaded(key) ==
  CHOOSE n \in DOMAIN LoadedEntries :
    /\ BothIds(LoadedEntries[n]) /\ IdText(LoadedEntries[n]) = key
    /\ \A m \in DOMAIN LoadedEntries :
         BothIds(LoadedEntries[m]) /\ IdText(LoadedEntries[m]) = key => m <= n

\* C19: loading JSON arrays stores each entry that carries both ClusterId and
\* ProcId under the key '<ClusterId>.<ProcId>' and silently drops every entry
\* lacking either; after any sequence of such loads every key of the record
\* map equals '<ClusterId>.<ProcId>' of the record stored under it, and a
\* later entry with an already present key has replaced the earlier one
C19_ArrayLoadsKeyed ==
  load_kind # "dict" =>
    /\ \A i \in DOMAIN condor_data :
         BothIds(condor_data[i].job) /\ condor_data[i].id = IdText(condor_data[i].job)
    /\ \A i, j \in DOMAIN condor_data : condor_data[i].id = condor_data[j].id => i = j
    /\ {condor_data[i].id : i \in DOMAIN condor_data} =
         {IdText(LoadedEntries[n]) : n \in {m \in DOMAIN LoadedEntries : BothIds(LoadedEntries[m])}}
    /\ \A i \in DOMAIN condor_data :
         \A f \in DOMAIN LoadedEntries[LastLoaded(condor_data[i].id)] \ {"LastRemoteHost"} :
           condor_data[i].job[f] = LoadedEntries[LastLoaded(condor_data[i].id)][f]
    /\ load_err = "" => printed = <<>>

\* two arrays were loaded: an entry without an id was dropped, job 7.1 came
\* Running and later Completed and is stored once, Completed, beside job 7.2
C19_Witness ==
  /\ Len(load_log) = 2
  /\ load_err = ""
  /\ \E n \in DOMAIN LoadedEntries : ~BothIds(LoadedEntries[n])
  /\ \E n, m \in DOMAIN LoadedEntries :
       /\ n < m
       /\ BothIds(LoadedEntries[n]) /\ BothIds(LoadedEntries[m])
       /\ IdText(LoadedEntries[n]) = <<"7", ".", "1">> /\ LoadedEntries[n].JobStatus = 2
       /\ IdText(LoadedEntries[m]) = <<"7", ".", "1">> /\ LoadedEntries[m].JobStatus = 4
       /\ m = LastLoaded(<<"7", ".", "1">>)
  /\ Len(condor_data) = 2
  /\ \E i \in DOMAIN condor_data :
       condor_data[i].id = <<"7", ".", "1">> /\ condor_data[i].job.JobStatus = 4

----------------------------------------------------------------------------
(* Claims about the main program of condor-probe.py *)

StateFlags == {"held", "idle", "running", "completed"}

\* the command line asks for more than one state, or for completed jobs with
\* no hours to look back and no input file
ConfigurationError ==
  \/ Cardinality({f \in StateFlags : cli_args[f]}) > 1
  \/ /\ cli_args.completed
     /\ cli_args.hours <= 0
     /\ cli_args.input \in {<<"FALSE">>, <<>>}

\* C20: configuration errors are detected before any external call: in every
\* run where more than one of held/idle/running/completed is requested, or
\* completed is requested with hours <= 0 and no input file, the program ends
\* with a usage error, and no scheduler query, history query, hold or vacate
\* command and no snapshot read has been started before that
C20_UsageErrorBeforeAnyCall ==
  (pc # "" /\ ConfigurationError) =>
    /\ commands = <<>>
    /\ opened = <<>>
    /\ pc \in {"states", "modes", "completed", "exit"}
    /\ pc = "exit" => exit_status = 2 /\ usage # ""

\* under FairProbe: a run with a configuration error does end, with the usage
\* error
UsageErrorReached == ConfigurationError ~> (pc = "exit" /\ exit_status = 2)

\* a run for completed jobs with nothing to look back on went past the check
\* of the states, ended with the usage error and had started nothing
C20_Witness ==
  /\ ConfigurationError
  /\ Cardinality({f \in StateFlags : cli_args[f]}) = 1
  /\ pc = "exit"
  /\ exit_status = 2
  /\ usage = "-completed requires -hours is greater than zero or -input."
  /\ commands = <<>> /\ opened = <<>>

----------------------------------------------------------------------------
(* Claims about the tally of a load *)

\* condor_tally folded over the records of the record map from its i-th on,
\* each once, in the order of the map
RECURSIVE TallyOfMap(_, _)
TallyOfMap(x, i) ==
  IF i > Len(condor_data) THEN x
  ELSE TallyOfMap(condor_tally(x, condor_data[i].job).x, i + 1)

\* after the first normalisation the tally is that of the map
TalliedOnceByFirstPass ==
  (munge_calls = 1 /\ munge_err = "") => condor_data_tallies = TallyOfMap(TalliesInit, 1)

\* C21: each record contributes to the global tally exactly once: after any
\* sequence of loads the tally equals the fold of condor_tally over the
\* records now in the record map, each counted once; a second load or a
\* second normalisation pass tallies no record again
C21_EachRecordTalliedOnce ==
  (munge_calls > 0 /\ munge_err = "") => condor_data_tallies = TallyOfMap(TalliesInit, 1)

\* the field of the tally has not gone down over the step; totalwall and
\* totalcpu are not there before the first update
WallNotLess(f) ==
  (f \in DOMAIN condor_data_tallies /\ f \in DOMAIN condor_data_tallies') =>
    ~(\/ condor_data_tallies'[f][1] < condor_data_tallies[f][1]
      \/ /\ condor_data_tallies'[f][1] = condor_data_tallies[f][1]
         /\ condor_data_tallies'[f][2] < condor_data_tallies[f][2])

CountNotLess(f) ==
  (f \in DOMAIN condor_data_tallies /\ f \in DOMAIN condor_data_tallies') =>
    condor_data_tallies'[f] >= condor_data_tallies[f]

\* the counts of attempts and the good sums never go down
GoodSumsMonotone ==
  [][/\ \A f \in {"goodattempts", "badattempts", "goodcpu"} : CountNotLess(f)
     /\ WallNotLess("goodwall")]_vars

\* C22: the global tally accumulates monotonically: across every condor_tally
\* update none of goodwall, badwall, goodcpu, badcpu, goodattempts,
\* badattempts, totalwall, totalcpu decreases, for every record with
\* non-negative raw time fields, a Completed or Running record with
\* NumJobStarts > 1 whose last run was longer than its CumulativeSlotTime
\* included
C22_TallyMonotone ==
  [][/\ \A f \in {"goodattempts", "badattempts", "goodcpu", "badcpu", "totalcpu"} :
          CountNotLess(f)
     /\ \A f \in {"goodwall", "badwall", "totalwall"} : WallNotLess(f)]_vars

----------------------------------------------------------------------------
(* Claims about condor_yield *)

\* condor_match is true of the record of that item
MatchTrue(item) == ~MatchRaises(item.job) /\ condor_match(matchers, item.job, args)

\* no condor_match call on a record of the map raises
NoMatchRaises == \A i \in DOMAIN condor_data : ~MatchRaises(condor_data[i].job)

\* every run through condor_yield over records that all have their log-derived
\* id yields the matching items, each once, in the order of the map
YieldsMatchedWhenNoneRaises ==
  (yield_calls > 0 /\ NoMatchRaises) =>
    yield_err = "" /\ yield_ret = SelectSeq(condor_data, MatchTrue)

\* C23: condor_yield produces exactly the (id, record) pairs of the record map
\* for which condor_match is true, each once and in the map's insertion order;
\* it is finite, and iterating it again in the same run with the same request
\* yields the same sequence
C23_YieldsExactlyMatched ==
  yield_calls > 0 => yield_ret = SelectSeq(condor_data, MatchTrue)

\* a second run over a map of two records, one of them rejected
YieldedTwice ==
  /\ yield_calls = 2
  /\ NoMatchRaises
  /\ Len(condor_data) = 2
  /\ Len(yield_ret) = 1

----------------------------------------------------------------------------
(* Claims about the exit code parsed from the error log *)

\* the last n of the lines
LastLines(lines, n) ==
  SubSeq(lines, IF Len(lines) > n THEN Len(lines) - n + 1 ELSE 1, Len(lines))

\* the line consists of the two tokens 'exit' and an integer
IsExitLine(line) ==
  /\ Len(SplitBlank(line)) = 2
  /\ SplitBlank(line)[1] = <<"e", "x", "i", "t">>
  /\ IsIntLiteral(SplitBlank(line)[2])

\* the integer of the exit line nearest the end of the lines, None when none
\* of them is one
NearestExit(lines) ==
  IF \A k \in DOMAIN lines : ~IsExitLine(lines[k]) THEN None
  ELSE LET k == CHOOSE k \in DOMAIN lines :
                  IsExitLine(lines[k]) /\ \A m \in DOMAIN lines : IsExitLine(lines[m]) => m <= k
       IN  <<"int", IntOf(SplitBlank(lines[k])[2])>>

\* the error log of the job, None when there is none
ErrorLog(job) ==
  IF Get(job, "stderr") = None \/ Get(job, "stderr") \notin DOMAIN files THEN None
  ELSE files[Get(job, "stderr")]

\* what the claim gives as the exit code of a Held job
ExitOfLast3(job) ==
  IF ErrorLog(job) = None THEN None ELSE NearestExit(LastLines(SplitLines(ErrorLog(job)), 3))

\* the error log, if there is one, ends with a newline
NewlineTerminated(job) ==
  ErrorLog(job) = None \/ ErrorLog(job) = <<>> \/ ErrorLog(job)[Len(ErrorLog(job))] = "\n"

ParsedHeld(job) == args.parseexit /\ job_states[job.JobStatus] = "H"

\* the claim holds of the logs that end with a newline
ExitCodeOfTerminatedLog ==
  munge_calls > 0 =>
    \A i \in Normalized :
      IF ParsedHeld(condor_data[i].job)
      THEN NewlineTerminated(condor_data[i].job) =>
             Get(condor_data[i].job, "ExitCode") = ExitOfLast3(condor_data[i].job)
      ELSE ~Has(condor_data[i].job, "ExitCode")

\* C24: with exit-code parsing enabled, a Held record's ExitCode after
\* normalisation is the integer n of the line nearest the end of its error
\* log, among the last 3 lines only, that consists of exactly the two tokens
\* 'exit' and an integer n, and is null when no such line is among the last 3
\* lines; a matching line that is 4th from the end or earlier is never used.
\* Records that are not Held, or any record when parsing is disabled, keep the
\* ExitCode the scheduler supplied (here: none).
C24_ExitCodeFromLast3Lines ==
  munge_calls > 0 =>
    \A i \in Normalized :
      IF ParsedHeld(condor_data[i].job)
      THEN Get(condor_data[i].job, "ExitCode") = ExitOfLast3(condor_data[i].job)
      ELSE ~Has(condor_data[i].job, "ExitCode")

\* a Held record got the exit code of one of the last 3 lines of its log
ExitCodeParsed ==
  \E i \in Normalized :
    /\ munge_calls > 0
    /\ ParsedHeld(condor_data[i].job)
    /\ NewlineTerminated(condor_data[i].job)
    /\ Get(condor_data[i].job, "ExitCode") = <<"int", 203>>

----------------------------------------------------------------------------
(* Claims about what the filter and the summaries leave alone *)

\* C25: once the record map is normalised, condor_match, condor_yield,
\* condor_cluster_summary, condor_site_summary and condor_exit_code_summary
\* leave the record map (its keys, their order, every field of every record)
\* and the global tally as they are; what the summaries write goes to their
\* own groups.
C25_ReadOnlyAfterNormalization ==
  [][AfterLoad => (condor_data' = condor_data /\ condor_data_tallies' = condor_data_tallies)]_vars

\* a cluster summary counted two records into a group of its own and the map
\* is as normalisation left it
C25_Witness ==
  /\ summary_call = "cluster"
  /\ summary_err = ""
  /\ \E g \in DOMAIN summary_ret :
       /\ summary_ret[g].v.held = 1
       /\ summary_ret[g].v.run = 1
       /\ summary_ret[g].v.att # <<>>
  /\ condor_data = munge_first
  /\ \A i \in DOMAIN condor_data : ~Has(condor_data[i].job, "held")

\* an exit code summary counted a parsed exit code
ExitCodesCounted ==
  /\ summary_call = "exit"
  /\ \E g \in DOMAIN summary_ret : summary_ret[g].count > 0

\* the filter ran after a summary
YieldedAfterSummary == summary_call = "site" /\ yield_calls > 0 /\ yield_ret # <<>>

----------------------------------------------------------------------------
(* Claims about condor_efficiency_summary *)

\* the summary has a line of the label
Shows(label) == \E k \in DOMAIN summary_ret : summary_ret[k][1] = label

Efficiency == summary_call = "efficiency"

\* C26: in every tally state that ingesting records reaches, the initial one
\* included, condor_efficiency_summary divides by no zero and reads no total
\* that is not defined: the average attempt count is there only when the
\* attempts list is not empty, the cpu utilization of good jobs only when
\* goodwall > 0, the good fraction and the total efficiency only when
\* totalwall > 0.
C26_EfficiencySummaryGuarded ==
  Efficiency =>
    /\ summary_err = ""
    /\ Shows("attempts") => condor_data_tallies.attempts # <<>>
    /\ Shows("utilization") =>
         (condor_data_tallies.goodwall[1] > 0 \/
            (condor_data_tallies.goodwall[1] = 0 /\ condor_data_tallies.goodwall[2] > 0))
    /\ (Shows("goodfraction") \/ Shows("efficiency")) =>
         /\ "totalwall" \in DOMAIN condor_data_tallies
         /\ (condor_data_tallies.totalwall[1] > 0 \/
               (condor_data_tallies.totalwall[1] = 0 /\ condor_data_tallies.totalwall[2] > 0))

\* a summary of a Running job's attempt: no good wall time, so no utilization,
\* but the two fractions of the total
C26_Witness ==
  /\ Efficiency
  /\ condor_data_tallies.attempts # <<>>
  /\ condor_data_tallies.goodwall = <<0, 0>>
  /\ Shows("attempts") /\ ~Shows("utilization") /\ Shows("efficiency")

\* the summary of the initial tallies is empty
EmptyEfficiency ==
  Efficiency /\ condor_data_tallies = TalliesInit /\ summary_ret = <<>> /\ summary_err = ""

\* a summary with all its lines
FullEfficiency == Efficiency /\ Shows("utilization") /\ Shows("goodfraction")

\* wall time was ingested with no attempt: the summary is empty
NoAttemptEfficiency ==
  /\ Efficiency
  /\ condor_data_tallies.attempts = <<>>
  /\ "totalwall" \in DOMAIN condor_data_tallies
  /\ summary_ret = <<>>

----------------------------------------------------------------------------
(* Claims about the matchers of condor_match *)

\* the seven matchers are those of the criteria lists of the request
BuiltFrom(ms, a) ==
  /\ ms.built
  /\ ms.condor = MatcherNew(a.condor)
  /\ ms.site = MatcherNew(a.site)
  /\ ms.gemc = MatcherNew(a.gemc)
  /\ ms.user = MatcherNew(a.user)
  /\ ms.exit = MatcherNew(a.exit)
  /\ ms.gen = MatcherNew(a.generator)
  /\ ms.host = MatcherNew(a.host)

\* condor_match is true of the record with the matchers as they were before
\* the step and the request of the step
MatchTrueOfBuilt(item) ==
  ~MatchRaises(item.job) /\ condor_match(matchers, item.job, args')

\* C27: the seven matchers of condor_match are built once in a process, from
\* the criteria of the first condor_match call, and never again: a later call
\* with other criteria lists is evaluated against the lists of the first call.
C27_MatchersBuiltOnce ==
  [][/\ ~matchers.built /\ matchers'.built => BuiltFrom(matchers', args')
     /\ matchers.built => matchers' = matchers
     /\ (matchers.built /\ yield_calls' > yield_calls /\ yield_err' = "") =>
          yield_ret' = SelectSeq(condor_data, MatchTrueOfBuilt)]_vars

\* a second run asked for cluster 8 and got the records of cluster 7 that the
\* first run had asked for
C27_Witness ==
  /\ yield_calls = 2
  /\ yield_err = ""
  /\ args.condor = << <<"8">> >>
  /\ matchers.built /\ matchers.condor = MatcherNew(<< <<"7">> >>)
  /\ yield_ret # <<>>
  /\ \A k \in DOMAIN yield_ret : yield_ret[k].job.ClusterId = 7

----------------------------------------------------------------------------
(* Claims about the exceptions of condor_match *)

\* the records without the id that normalisation derives from the log path
NoLogId == {i \in DOMAIN condor_data : Get(condor_data[i].job, "condor") = None}

\* a run through condor_yield raises only at a record without that id
RaisesOnlyWithoutLogId == yield_err # "" => NoLogId # {}

\* C28: condor_match returns true or false, and raises nothing, for every
\* record that normalisation accepted, also for one with no log path or with a
\* log path that does not match the pattern, whose user, gemc id and
\* log-derived id are null.
C28_MatchNeverRaises ==
  (AfterLoad /\ yield_calls > 0) => yield_err = ""

----------------------------------------------------------------------------
(* Claims about the lists of condor_cluster_summary *)

\* the records of the cluster that the summary was handed, in the map's order
RecordsOf(cluster_id) ==
  SelectSeq(condor_data,
            LAMBDA item : MatchTrue(item) /\ BeforeFirst(item.id, <<".">>) = cluster_id)

\* the values of the field, as floats, of the records that have one
ValuesOf(records, field) ==
  LET having == SelectSeq(records, LAMBDA item : Get(item.job, field) # None)
  IN  [k \in DOMAIN having |-> Float100(having[k].job[field])]

\* the positive NumJobStarts of the records
StartsOf(records) ==
  LET having == SelectSeq(records, LAMBDA item : item.job.NumJobStarts > 0)
  IN  [k \in DOMAIN having |-> 100 * having[k].job.NumJobStarts]

ClusterSummarised == summary_call = "cluster" /\ summary_err = ""

\* the eff and the att of a group are the means over all its records that
\* have the value
EffAndAttOfAllRecords ==
  ClusterSummarised =>
    \A g \in DOMAIN summary_ret :
      /\ summary_ret[g].v.eff = average(ValuesOf(RecordsOf(summary_ret[g].key), "eff"))
      /\ summary_ret[g].v.att = average(StartsOf(RecordsOf(summary_ret[g].key)))

\* C29: in condor_cluster_summary every admitted record contributes each of
\* its metrics on its own: its ceff goes to the group's ceff list whenever it
\* is not null (also when its eff is null, as for a Running record), its eff
\* whenever it is not null, its NumJobStarts whenever it is positive; each
\* list then becomes its mean, or '-' when it is empty.
C29_MetricsIndependent ==
  ClusterSummarised =>
    \A g \in DOMAIN summary_ret :
      /\ summary_ret[g].v.ceff = average(ValuesOf(RecordsOf(summary_ret[g].key), "ceff"))
      /\ summary_ret[g].v.eff = average(ValuesOf(RecordsOf(summary_ret[g].key), "eff"))
      /\ summary_ret[g].v.att = average(StartsOf(RecordsOf(summary_ret[g].key)))

----------------------------------------------------------------------------
(* Claims about the counts of condor_site_summary *)

SiteSummarised == summary_call = "site" /\ summary_err = ""

\* how many of the admitted records are of the site
AdmittedAt(site) ==
  Len(SelectSeq(Admitted, LAMBDA item : Get(item.job, "MATCH_GLIDEIN_Site") = site))

\* total[1] + ... + total[n] of the groups returned
RECURSIVE TotalsTo(_)
TotalsTo(n) == IF n = 0 THEN 0 ELSE summary_ret[n].v.total + TotalsTo(n - 1)

\* C30: condor_site_summary conserves the admitted records: with a window of
\* completed jobs asked for (hours > 0) every site group, the one of the null
\* site included, has total = held + idle + run + done + other; for any hours
\* the totals of all groups add up to the number of records condor_yield
\* yields, each record counted in the group of its site and in no other.
C30_SiteCountsConserved ==
  SiteSummarised =>
    /\ args.hours > 0 =>
         \A g \in DOMAIN summary_ret :
           summary_ret[g].v.total =
             summary_ret[g].v.held + summary_ret[g].v.idle + summary_ret[g].v.run +
               summary_ret[g].v.done[2] + summary_ret[g].v.other
    /\ TotalsTo(Len(summary_ret)) = Len(Admitted)
    /\ \A g \in DOMAIN summary_ret : summary_ret[g].v.total = AdmittedAt(summary_ret[g].key)
    /\ \A g, h \in DOMAIN summary_ret : summary_ret[g].key = summary_ret[h].key => g = h

\* three records in three groups: an Idle one matched to no site, a Removed
\* one, a Completed one
C30_Witness ==
  /\ SiteSummarised
  /\ args.hours > 0
  /\ Len(Admitted) = 3
  /\ \E g \in DOMAIN summary_ret :
       summary_ret[g].key = <<"NONE">> /\ summary_ret[g].v.idle = 1 /\ summary_ret[g].v.total = 1
  /\ \E g \in DOMAIN summary_ret : summary_ret[g].v.other = 1
  /\ \E g \in DOMAIN summary_ret : summary_ret[g].v.done = <<"int", 1>>

\* without a window the done column is the null field
SitesWithoutWindow ==
  /\ SiteSummarised
  /\ args.hours = 0
  /\ \E g \in DOMAIN summary_ret : summary_ret[g].v.done = <<"-">> /\ summary_ret[g].v.total = 2

============================================================================
